---- MODULE Spec2Model ----
(***************************************************************************)
(* Model of the Sierra React Native SDK: ConversationStorage (the          *)
(* persistence cache with its three PersistenceMode tiers and the          *)
(* StorageAdapter it mirrors to), the Agent constructor, and the           *)
(* SierraAgentView component: its storage load gate and its message        *)
(* bridge (handleMessage, the scripts it injects into the WebView, and     *)
(* the secret-expiry reply closures).                                      *)
(*                                                                         *)
(* JavaScript is single threaded: every action below is one synchronous    *)
(* run of a function, a promise continuation, or one completion of an      *)
(* asynchronous StorageAdapter operation.  The StorageAdapter is supplied  *)
(* by the caller; it obeys its interface (each call returns a promise that *)
(* later resolves or rejects) and nothing more: operations in flight take  *)
(* effect and complete in any order, and each may fail.                    *)
(***************************************************************************)
EXTENDS Integers, Sequences, FiniteSets, TLC

(* ---------------------------- bounds ----------------------------------- *)

\* Mutating storage calls (setItem, clear) made in one run, by the host or
\* by the bridge; it also bounds the adapter operations in flight.
MaxCalls == 3

\* Messages the surface posts in one run.
MaxMessages == 2

\* The ConversationStorage / Agent objects the host may create.
Insts == {1, 2}

(* ---------------------------- inputs ----------------------------------- *)

\* PersistenceMode enum values.
Modes == {"none", "memory", "disk"}

\* Agent tokens; the Agent derives its storage key from the token.
Tokens == {"t1", "t2"}

\* Keys and values handed to setItem / getItem.  "__proto__" is the one
\* key a plain JavaScript object does not treat as an ordinary property.
Keys == {"a", "b", "__proto__"}
Values == {"", "1"}

(* --------------------- JavaScript values and objects ------------------- *)

\* A JavaScript value as returned by getItem: a string, null, undefined, or
\* an object (only Object.prototype can occur).
JsString(s) == [t |-> "string", v |-> s]
JsNull == [t |-> "null", v |-> ""]
JsUndefined == [t |-> "undefined", v |-> ""]
JsObjectPrototype == [t |-> "object", v |-> "Object.prototype"]

\* A plain object is the list of its own enumerable properties <<key, value>>
\* in insertion order (keys unique); it inherits from Object.prototype.
EmptyObject == << >>

HasOwn(o, k) == \E j \in 1..Len(o) : o[j][1] = k

OwnIndex(o, k) == CHOOSE j \in 1..Len(o) : o[j][1] = k

OwnKeys(o) == {o[j][1] : j \in 1..Len(o)}

\* CreateDataProperty: define or overwrite an own property (used by
\* JSON.parse and by object spread).
DefineOwn(o, k, v) ==
    IF HasOwn(o, k)
    THEN [o EXCEPT ![OwnIndex(o, k)] = <<k, v>>]
    ELSE Append(o, <<k, v>>)

\* o[k] = v for a string v.  Without an own "__proto__" property the
\* assignment reaches the Object.prototype.__proto__ setter, which ignores
\* a value that is neither an object nor null.
ObjSet(o, k, v) ==
    IF HasOwn(o, k) THEN [o EXCEPT ![OwnIndex(o, k)] = <<k, v>>]
    ELSE IF k = "__proto__" THEN o
    ELSE Append(o, <<k, v>>)

\* o[k]: own property, else what Object.prototype provides, else undefined.
ObjGet(o, k) ==
    IF HasOwn(o, k) THEN JsString(o[OwnIndex(o, k)][2])
    ELSE IF k = "__proto__" THEN JsObjectPrototype
    ELSE JsUndefined

\* a ?? b
Coalesce(a, b) == IF a.t \in {"null", "undefined"} THEN b ELSE a

\* { ...o }: a fresh object with o's own enumerable properties.
RECURSIVE Spread(_, _)
Spread(o, acc) ==
    IF o = << >> THEN acc
    ELSE Spread(Tail(o), DefineOwn(acc, Head(o)[1], Head(o)[2]))

\* The mapping an object denotes (insertion order forgotten).
AsMap(o) == [k \in OwnKeys(o) |-> o[OwnIndex(o, k)][2]]

(* ------------------------------ JSON ----------------------------------- *)

\* JSON text is a sequence of tokens.  An object is "{" k1 v1 k2 v2 ... "}".
RECURSIVE Flatten(_)
Flatten(o) ==
    IF o = << >> THEN << >>
    ELSE <<Head(o)[1], Head(o)[2]>> \o Flatten(Tail(o))

\* JSON.stringify of a plain object with string values.
JSONStringify(o) == <<"{">> \o Flatten(o) \o <<"}">>

RECURSIVE ParseMembers(_, _)
ParseMembers(toks, acc) ==
    IF toks = << >> THEN acc
    ELSE ParseMembers(Tail(Tail(toks)), DefineOwn(acc, toks[1], toks[2]))

\* JSON.parse: [threw, kind, obj].  kind is the type of the parsed value
\* (typeof, with arrays told apart as Array.isArray does); obj is its own
\* enumerable properties (for the array ["x"], the element at index "0").
JSONParse(text) ==
    IF Len(text) >= 2 /\ text[1] = "{" /\ text[Len(text)] = "}"
       /\ (Len(text) - 2) % 2 = 0
    THEN [threw |-> FALSE, kind |-> "object",
          obj |-> ParseMembers(SubSeq(text, 2, Len(text) - 1), EmptyObject)]
    ELSE IF text = <<"[", "x", "]">>
    THEN [threw |-> FALSE, kind |-> "array", obj |-> <<<<"0", "x">>>>]
    ELSE IF text = <<"null">>
    THEN [threw |-> FALSE, kind |-> "null", obj |-> EmptyObject]
    ELSE IF text = <<"0">>
    THEN [threw |-> FALSE, kind |-> "number", obj |-> EmptyObject]
    ELSE [threw |-> TRUE, kind |-> "syntaxError", obj |-> EmptyObject]

\* Texts an adapter may already hold when the program starts.
EmptyText == << >>
InvalidText == <<"{", "a">>
ArrayText == <<"[", "x", "]">>
NullText == <<"null">>
NumberText == <<"0">>
DuplicateKeyText == <<"{", "a", "", "a", "1", "}">>
ProtoKeyText == <<"{", "__proto__", "1", "}">>
TwoKeyText == <<"{", "a", "1", "b", "", "}">>

\* What adapter.getItem resolves with: null, or the stored string.
NoItem == [present |-> FALSE, text |-> << >>]
Item(text) == [present |-> TRUE, text |-> text]

InitItems ==
    {NoItem} \cup {Item(t) : t \in {EmptyText, InvalidText, ArrayText, NullText,
                                     NumberText, DuplicateKeyText, ProtoKeyText,
                                     TwoKeyText}}

(* ------------------------------ state ---------------------------------- *)

\* storage[i]: the i-th ConversationStorage object (fields of the class, the
\*   progress of its loadFromDisk call, and how it was constructed).
\* disk:       what the StorageAdapter holds under each key.
\* inflight:   adapter.setItem / adapter.removeItem calls not yet completed.
\* calls:      number of setItem / clear calls made so far.
\* last:       the most recent storage call and what it returned.
\* view:       the mounted SierraAgentView (its agent prop, its
\*             isStorageReady state, whether its useEffect still has to
\*             run for the last render, and what the last render returned).
\* thens:      callbacks registered with agent.waitForLoad().then(...) and
\*             not yet run, each with the `mounted` flag of its closure.
\* surface:    the page in the WebView: whether it has loaded, and its
\*             window.__sierraSyncStorage (the mirror object).
\* requests:   the reply closures handed to the host's onSecretExpiry, each
\*             with the message it closed over, and how often the host has
\*             invoked it and how often it has injected since.
\* handled:    the most recent handleMessage call: its payload, the props
\*             of the render it belongs to, whether it raised, and the
\*             host callbacks it invoked.
\* injected:   what the most recent step passed to injectJavaScript.
\* returned:   the object the host holds from its most recent getAll()
\*             call: its content now, the storage it came from, and
\*             whether it is that storage's cache object itself.
VARIABLES storage, disk, inflight, calls, last, view, thens,
          surface, requests, handled, injected, returned

storageVars == <<storage, disk, inflight, calls, returned>>

uiVars == <<view, thens>>

bridgeVars == <<surface, requests, handled, injected>>

vars == <<storage, disk, inflight, calls, last, view, thens,
          surface, requests, handled, injected, returned>>

\* `sierra_chat_${config.token}`
StorageKey(token) == <<"sierra_chat_", token>>

StorageKeys == {StorageKey(t) : t \in Tokens}

\* A slot in which no object has been constructed yet.  load is the
\* progress of loadFromDisk ("null": never started, loadPromise is null);
\* got / gotOk is what adapter.getItem settled with (resolved or rejected);
\* reads is the number of adapter.getItem calls the object has issued.
Unbuilt ==
    [status |-> "unbuilt", mode |-> "none", storageKey |-> StorageKey("t1"),
     adapter |-> FALSE, cache |-> EmptyObject, load |-> "null", got |-> NoItem,
     gotOk |-> TRUE, reads |-> 0]

NoCall == [op |-> "", inst |-> 0, key |-> "", val |-> "", raised |-> FALSE]

Built(i) == storage[i].status = "built"

\* The host holds no object returned by getAll().
NoReturned == [taken |-> FALSE, inst |-> 0, alias |-> FALSE, obj |-> EmptyObject]

\* The object the host holds is the cache object of storage i.
Aliased(i) == returned.taken /\ returned.alias /\ returned.inst = i

\* this.cache[key] = value writes into the cache object, and so into an
\* object that is the cache.
ReturnedAfterWrite(i, cache) ==
    IF Aliased(i) THEN [returned EXCEPT !.obj = cache] ELSE returned

\* this.cache = ... makes another object the cache; the object the host
\* holds is as it was.
ReturnedAfterRebind(i) ==
    IF Aliased(i) THEN [returned EXCEPT !.alias = FALSE] ELSE returned

\* Slots are filled in order.
NextSlot(i) ==
    /\ storage[i].status = "unbuilt"
    /\ \A j \in Insts : j < i => storage[j].status # "unbuilt"

\* waitForLoad() that always returns a resolved promise.
waitForLoadResolvesAtOnce(s) == "fulfilled"

\* waitForLoad() without the ?? Promise.resolve() fallback: with no load
\* promise, nothing a caller could wait on ever settles.
waitForLoadWithoutFallback(s) ==
    IF s.load \in {"fulfilled", "rejected"} THEN s.load ELSE "pending"

\* The state of the promise waitForLoad() returns:
\* this.loadPromise ?? Promise.resolve()
waitForLoad(s) ==
    IF s.load = "null" THEN "fulfilled"
    ELSE IF s.load \in {"fulfilled", "rejected"} THEN s.load
    ELSE "pending"

(* ------------------------ ConversationStorage -------------------------- *)

\* constructor(mode, storageKey, adapter?): never throws; starts the load
\* (and so calls adapter.getItem) only for DISK with an adapter.
ConversationStorage(mode, storageKey, adapter) ==
    [Unbuilt EXCEPT !.status = "built",
                    !.mode = mode, !.storageKey = storageKey,
                    !.adapter = adapter, !.cache = EmptyObject,
                    !.load = IF mode = "disk" /\ adapter THEN "reading" ELSE "null",
                    !.reads = IF mode = "disk" /\ adapter THEN 1 ELSE 0]

\* Agent constructor with a storage key that leaves the token out.
AgentWithFixedKey(mode, token, storageAdapter) ==
    IF mode = "disk" /\ ~storageAdapter
    THEN [Unbuilt EXCEPT !.status = "threw", !.mode = mode, !.adapter = storageAdapter]
    ELSE ConversationStorage(mode, StorageKey("t1"), storageAdapter)

\* Agent constructor: throws for DISK without a storageAdapter, otherwise
\* creates its ConversationStorage under sierra_chat_<token>.
Agent(mode, token, storageAdapter) ==
    IF mode = "disk" /\ ~storageAdapter
    THEN [Unbuilt EXCEPT !.status = "threw", !.mode = mode, !.adapter = storageAdapter]
    ELSE ConversationStorage(mode, StorageKey(token), storageAdapter)

\* LoadTry without the !Array.isArray(parsed) test: typeof [] is "object".
LoadTryArrayAsObject(s) ==
    IF ~s.gotOk
    THEN [threw |-> TRUE, cache |-> s.cache]
    ELSE IF ~s.got.present \/ s.got.text = EmptyText
    THEN [threw |-> FALSE, cache |-> s.cache]
    ELSE LET parsed == JSONParse(s.got.text) IN
         IF parsed.threw
         THEN [threw |-> TRUE, cache |-> s.cache]
         ELSE IF parsed.kind \in {"object", "array"}
         THEN [threw |-> FALSE, cache |-> parsed.obj]
         ELSE [threw |-> FALSE, cache |-> s.cache]

\* The try block of loadFromDisk once adapter.getItem has settled with
\* s.got (or rejected: ~s.gotOk): whether it threw, and the cache it leaves.
LoadTry(s) ==
    IF ~s.gotOk
    THEN [threw |-> TRUE, cache |-> s.cache]
    ELSE IF ~s.got.present \/ s.got.text = EmptyText
    THEN [threw |-> FALSE, cache |-> s.cache]
    ELSE LET parsed == JSONParse(s.got.text) IN
         IF parsed.threw
         THEN [threw |-> TRUE, cache |-> s.cache]
         ELSE IF parsed.kind = "object"
         THEN [threw |-> FALSE, cache |-> parsed.obj]
         ELSE [threw |-> FALSE, cache |-> s.cache]

\* loadFromDisk without its catch block: what the try block throws rejects
\* the promise.
loadFromDiskRethrows(s) ==
    LET r == LoadTry(s) IN
    [s EXCEPT !.cache = r.cache, !.load = IF r.threw THEN "rejected" ELSE "fulfilled"]

\* loadFromDisk after its await: the catch block swallows whatever the try
\* block threw, so the promise is fulfilled either way.
loadFromDisk(s) ==
    LET r == LoadTry(s) IN
    [s EXCEPT !.cache = r.cache, !.load = "fulfilled"]

\* getItem(key)
getItem(s, key) ==
    IF s.mode = "none" THEN JsNull
    ELSE Coalesce(ObjGet(s.cache, key), JsNull)

\* setItem without the early return for NONE.
setItemInNone(s, key, value) ==
    LET c == ObjSet(s.cache, key, value) IN
    [cache |-> c, mirror |-> (s.mode = "disk" /\ s.adapter), text |-> JSONStringify(c)]

\* setItem(key, value): [cache, mirror, text]; mirror says whether
\* adapter.setItem(storageKey, text) is called.
setItem(s, key, value) ==
    IF s.mode = "none"
    THEN [cache |-> s.cache, mirror |-> FALSE, text |-> EmptyText]
    ELSE LET c == ObjSet(s.cache, key, value) IN
         [cache |-> c, mirror |-> (s.mode = "disk" /\ s.adapter),
          text |-> JSONStringify(c)]

\* clear that removes the adapter entry but keeps the cache.
clearMirrorOnly(s) ==
    [cache |-> s.cache, mirror |-> (s.mode = "disk" /\ s.adapter)]

\* clear(): [cache, mirror]; mirror says whether adapter.removeItem is called.
clear(s) ==
    [cache |-> EmptyObject, mirror |-> (s.mode = "disk" /\ s.adapter)]

\* getAll()
getAll(s) == Spread(s.cache, EmptyObject)

(* --------------------------- storage actions --------------------------- *)

\* new Agent({config, options, storageAdapter})
NewAgent(i, mode, token, storageAdapter) ==
    /\ NextSlot(i)
    /\ storage' = [storage EXCEPT ![i] = Agent(mode, token, storageAdapter)]
    /\ last' = [NoCall EXCEPT !.op = "newAgent", !.inst = i,
                              !.raised = (storage'[i].status = "threw")]
    /\ UNCHANGED <<disk, inflight, calls>>
    /\ UNCHANGED <<returned, uiVars, bridgeVars>>

\* new ConversationStorage(mode, storageKey, adapter)
NewConversationStorage(i, mode, storageKey, adapter) ==
    /\ NextSlot(i)
    /\ storage' = [storage EXCEPT ![i] = ConversationStorage(mode, storageKey, adapter)]
    /\ last' = [NoCall EXCEPT !.op = "newConversationStorage", !.inst = i,
                              !.raised = (storage'[i].status = "threw")]
    /\ UNCHANGED <<disk, inflight, calls>>
    /\ UNCHANGED <<returned, uiVars, bridgeVars>>

\* The adapter settles the getItem call loadFromDisk awaits: it resolves
\* (ok) with what it holds under the key at that moment, or rejects.
AdapterGetItemSettles(i, ok) ==
    /\ Built(i) /\ storage[i].load = "reading"
    /\ storage' = [storage EXCEPT
                     ![i].got = IF ok THEN disk[storage[i].storageKey] ELSE NoItem,
                     ![i].gotOk = ok,
                     ![i].load = "settled"]
    /\ last' = NoCall
    /\ UNCHANGED <<disk, inflight, calls>>
    /\ UNCHANGED <<returned, uiVars, bridgeVars>>

\* loadFromDisk resumes after its await and runs to completion.
LoadFromDiskResumes(i) ==
    /\ Built(i) /\ storage[i].load = "settled"
    /\ storage' = [storage EXCEPT ![i] = loadFromDisk(storage[i])]
    /\ last' = [NoCall EXCEPT !.op = "loadFromDisk", !.inst = i]
    /\ UNCHANGED <<disk, inflight, calls>>
    /\ returned' = ReturnedAfterRebind(i)
    /\ UNCHANGED <<uiVars, bridgeVars>>

\* storage.setItem(key, value), from the host or from a storeValue message.
SetItem(i, key, value) ==
    LET s == storage[i]
        r == setItem(s, key, value)
    IN /\ Built(i)
       /\ calls < MaxCalls
       /\ storage' = [storage EXCEPT ![i].cache = r.cache]
       /\ inflight' = IF r.mirror
                      THEN Append(inflight, [op |-> "setItem", inst |-> i,
                                             key |-> s.storageKey, text |-> r.text])
                      ELSE inflight
       /\ calls' = calls + 1
       /\ last' = [NoCall EXCEPT !.op = "setItem", !.inst = i, !.key = key, !.val = value]
       /\ UNCHANGED disk
       /\ returned' = ReturnedAfterWrite(i, r.cache)
       /\ UNCHANGED <<uiVars, bridgeVars>>

\* storage.clear(), also Agent.resetConversation() and the clearStorage and
\* onEndChat messages.
Clear(i) ==
    LET s == storage[i]
        r == clear(s)
    IN /\ Built(i)
       /\ calls < MaxCalls
       /\ storage' = [storage EXCEPT ![i].cache = r.cache]
       /\ inflight' = IF r.mirror
                      THEN Append(inflight, [op |-> "removeItem", inst |-> i,
                                             key |-> s.storageKey, text |-> EmptyText])
                      ELSE inflight
       /\ calls' = calls + 1
       /\ last' = [NoCall EXCEPT !.op = "clear", !.inst = i]
       /\ UNCHANGED disk
       /\ returned' = ReturnedAfterRebind(i)
       /\ UNCHANGED <<uiVars, bridgeVars>>

\* agent.resetConversation(): this.conversationStorage.clear()
ResetConversation(i) == Clear(i)

\* A getAll() that returns the cache object itself.
GetAllReturnsCache(i) ==
    /\ Built(i)
    /\ returned' = [taken |-> TRUE, inst |-> i, alias |-> TRUE,
                    obj |-> storage[i].cache]
    /\ last' = [NoCall EXCEPT !.op = "getAll", !.inst = i]
    /\ UNCHANGED <<storage, disk, inflight, calls, uiVars, bridgeVars>>

\* const all = storage.getAll(): the host holds the new object that
\* { ...this.cache } makes.
GetAll(i) ==
    /\ Built(i)
    /\ returned' = [taken |-> TRUE, inst |-> i, alias |-> FALSE,
                    obj |-> getAll(storage[i])]
    /\ last' = [NoCall EXCEPT !.op = "getAll", !.inst = i]
    /\ UNCHANGED <<storage, disk, inflight, calls, uiVars, bridgeVars>>

\* all[key] = value: the host writes into the object getAll() returned;
\* the write is into the cache only if that object is the cache.
MutateReturned(key, value) ==
    LET o == ObjSet(returned.obj, key, value) IN
    /\ returned.taken
    /\ returned' = [returned EXCEPT !.obj = o]
    /\ storage' = IF Aliased(returned.inst)
                  THEN [storage EXCEPT ![returned.inst].cache = o]
                  ELSE storage
    /\ last' = [NoCall EXCEPT !.op = "mutate", !.inst = returned.inst,
                              !.key = key, !.val = value]
    /\ UNCHANGED <<disk, inflight, calls, uiVars, bridgeVars>>

Remove(seq, j) == SubSeq(seq, 1, j - 1) \o SubSeq(seq, j + 1, Len(seq))

\* A .catch handler that undoes the cache when the mirror fails.
CatchRollsBackCache(s) == [s EXCEPT !.cache = EmptyObject]

\* The .catch handlers of setItem and clear: console.warn, nothing else.
CatchPersistFailure(s) == s

\* The adapter completes one of the operations in flight, in any order:
\* it takes effect and its promise resolves (ok), or it fails, and the
\* .catch handler logs a warning.
AdapterWriteCompletes(j, ok) ==
    /\ j \in 1..Len(inflight)
    /\ LET w == inflight[j] IN
       disk' = IF ~ok THEN disk
               ELSE IF w.op = "setItem" THEN [disk EXCEPT ![w.key] = Item(w.text)]
               ELSE [disk EXCEPT ![w.key] = NoItem]
    /\ storage' = IF ok THEN storage
                  ELSE [storage EXCEPT ![inflight[j].inst] = CatchPersistFailure(@)]
    /\ inflight' = Remove(inflight, j)
    /\ last' = NoCall
    /\ UNCHANGED calls
    /\ UNCHANGED <<returned, uiVars, bridgeVars>>

(* --------------------------- SierraAgentView --------------------------- *)

\* The page of a WebView that has not loaded yet: a new window, without
\* window.__sierraSyncStorage.
Unloaded == [loaded |-> FALSE, present |-> FALSE, obj |-> EmptyObject]

\* The page after a commit: it stays when the same WebView element is
\* rendered again with the same source (a new storage script is only kept
\* for the next load); a WebView that is mounted, or whose source changes,
\* loads its page anew.
SurfaceAfterCommit(prev, next, page) ==
    IF next.kind = "webview" /\ prev.kind = "webview" /\ prev.agent = next.agent
    THEN page
    ELSE Unloaded

\* No view is mounted.
NoView ==
    [mounted |-> FALSE, agent |-> 0, isStorageReady |-> FALSE, effectPending |-> FALSE,
     rendered |-> [kind |-> "none", agent |-> 0, storageScript |-> EmptyText]]

\* What the component function returns: the loading presentation while
\* !isStorageReady, else the WebView for the agent prop (source uri
\* agent.getEmbedUrl()) with the storage script built from
\* agent.getStorage().getAll().
Render(isStorageReady, agent) ==
    IF ~isStorageReady
    THEN [kind |-> "loading", agent |-> 0, storageScript |-> EmptyText]
    ELSE [kind |-> "webview", agent |-> agent,
          storageScript |-> JSONStringify(getAll(storage[agent]))]

\* An effect cleanup that leaves the closure's flag set.
CleanupKeepsMounted(callbacks) == callbacks

\* The effect's cleanup: mounted = false in the closure of the effect that
\* ran last (every older closure's flag is false already).
Cleanup(callbacks) == {[cb EXCEPT !.mounted = FALSE] : cb \in callbacks}

\* One run of the effect for the agent of the last render, after the
\* cleanup of the previous run: setIsStorageReady(false), mounted = true,
\* agent.waitForLoad().then(callback); the state change re-renders.
RunEffect(v, callbacks) ==
    [view |-> [v EXCEPT !.isStorageReady = FALSE, !.effectPending = FALSE,
                        !.rendered = Render(FALSE, v.agent)],
     thens |-> Cleanup(callbacks) \cup {[agent |-> v.agent, mounted |-> TRUE]}]

\* The host mounts <SierraAgentView agent={a}>: first render, with
\* useState(false); the effect runs after the commit.
MountView(a) ==
    /\ ~view.mounted
    /\ Built(a)
    /\ view' = [mounted |-> TRUE, agent |-> a, isStorageReady |-> FALSE,
                effectPending |-> TRUE, rendered |-> Render(FALSE, a)]
    /\ surface' = SurfaceAfterCommit(view.rendered, view'.rendered, surface)
    /\ last' = NoCall
    /\ UNCHANGED <<storageVars, thens, requests, handled, injected>>

\* The host re-renders the mounted view with another agent: the component
\* function runs with the new prop and the state it has; the effect
\* ([agent] changed) runs after the commit.  React runs the effects of a
\* commit before it renders again, so no effect is pending here.
ChangeAgent(b) ==
    /\ view.mounted /\ ~view.effectPending
    /\ Built(b) /\ b # view.agent
    /\ view' = [view EXCEPT !.agent = b, !.effectPending = TRUE,
                            !.rendered = Render(view.isStorageReady, b)]
    /\ surface' = SurfaceAfterCommit(view.rendered, view'.rendered, surface)
    /\ last' = NoCall
    /\ UNCHANGED <<storageVars, thens, requests, handled, injected>>

\* React runs the pending effect.
UseEffect ==
    /\ view.mounted /\ view.effectPending
    /\ view' = RunEffect(view, thens).view
    /\ thens' = RunEffect(view, thens).thens
    /\ surface' = SurfaceAfterCommit(view.rendered, view'.rendered, surface)
    /\ last' = [NoCall EXCEPT !.op = "useEffect", !.inst = view.agent]
    /\ UNCHANGED <<storageVars, requests, handled, injected>>

\* A callback registered on a fulfilled load promise runs:
\* if (mounted) setIsStorageReady(true).  When it sets the state while an
\* effect is pending, React runs that effect before it renders, and the
\* effect's setIsStorageReady(false) is applied after the callback's update.
\* React ignores a state update of a component that is no longer mounted.
ThenCallback(cb) ==
    /\ cb \in thens
    /\ waitForLoad(storage[cb.agent]) = "fulfilled"
    /\ IF ~cb.mounted \/ ~view.mounted
       THEN /\ view' = view
            /\ thens' = thens \ {cb}
       ELSE IF view.effectPending
       THEN /\ view' = RunEffect(view, thens \ {cb}).view
            /\ thens' = RunEffect(view, thens \ {cb}).thens
       ELSE /\ view' = [view EXCEPT !.isStorageReady = TRUE,
                                    !.rendered = Render(TRUE, view.agent)]
            /\ thens' = thens \ {cb}
    /\ surface' = SurfaceAfterCommit(view.rendered, view'.rendered, surface)
    /\ last' = [NoCall EXCEPT !.op = "thenCallback", !.inst = cb.agent]
    /\ UNCHANGED <<storageVars, requests, handled, injected>>

\* The host renders the view again with the same agent (its own state
\* changed): the component function runs again, and with it the storage
\* script is built again.
Rerender ==
    /\ view.mounted
    /\ view' = [view EXCEPT !.rendered = Render(view.isStorageReady, view.agent)]
    /\ surface' = SurfaceAfterCommit(view.rendered, view'.rendered, surface)
    /\ last' = NoCall
    /\ UNCHANGED <<storageVars, thens, requests, handled, injected>>

\* The host unmounts the view: the cleanup of the effect that ran last
\* runs; a pending effect never runs.
UnmountView ==
    /\ view.mounted
    /\ view' = NoView
    /\ thens' = Cleanup(thens)
    /\ surface' = Unloaded
    /\ last' = NoCall
    /\ UNCHANGED <<storageVars, requests, handled, injected>>

(* ------------------- strings and injected JavaScript ------------------- *)

\* The strings that travel through the bridge: storage keys and values,
\* callback ids, secret values, error texts.  Quote holds a double quote
\* and a backslash.
Quote == "q\"\\"

BridgeStrings == {"", "1", "a", "__proto__", Quote, "c1", "retry"}

\* The characters of a string.
Chars(s) ==
    CASE s = "" -> << >>
      [] s = "1" -> <<"1">>
      [] s = "a" -> <<"a">>
      [] s = "__proto__" -> <<"_", "_", "p", "r", "o", "t", "o", "_", "_">>
      [] s = Quote -> <<"q", "\"", "\\">>
      [] s = "c1" -> <<"c", "1">>
      [] s = "retry" -> <<"r", "e", "t", "r", "y">>

\* The string with the given characters ("?" for one outside BridgeStrings).
FromChars(cs) ==
    IF \E s \in BridgeStrings : Chars(s) = cs
    THEN CHOOSE s \in BridgeStrings : Chars(s) = cs
    ELSE "?"

Alphabet == {"1", "a", "_", "p", "r", "o", "t", "q", "\"", "\\", "'", "c", "e", "y"}

\* JSON.stringify of a string, character by character: the double quote
\* and the backslash are escaped with a backslash.
RECURSIVE EscapeChars(_)
EscapeChars(cs) ==
    IF cs = << >> THEN << >>
    ELSE (IF Head(cs) \in {"\"", "\\"} THEN <<"\\", Head(cs)>> ELSE <<Head(cs)>>)
         \o EscapeChars(Tail(cs))

\* ${JSON.stringify(x)} in a template literal, for x a string, null or
\* undefined (JSON.stringify(undefined) is undefined).
JSONStringifyValue(x) ==
    IF x.t = "string" THEN <<"\"">> \o EscapeChars(Chars(x.v)) \o <<"\"">>
    ELSE IF x.t = "null" THEN <<"null">>
    ELSE <<"undefined">>

\* Injected code is a sequence of tokens: the fixed pieces of the template
\* literals, and between them the characters the interpolations produce.
InitMirrorStmt == "window.__sierraSyncStorage = window.__sierraSyncStorage || {};"
SetMirrorOpen == "window.__sierraSyncStorage["
SetMirrorAssign == "] = "
ClearMirrorStmt == "window.__sierraSyncStorage = {};"
ResolveOpen == "window.__sierraResolveCallback("
ArgSeparator == ", "
ResolveClose == ");"
StmtEnd == ";"
TrueStmt == "true;"

\* A storeValue injection with the key interpolated raw between single
\* quotes, as the first version of the component did.
StoreValueCodeRawKey(key, value) ==
    <<InitMirrorStmt, SetMirrorOpen, "'">> \o Chars(key) \o <<"'", SetMirrorAssign>>
      \o JSONStringifyValue(JsString(value)) \o <<StmtEnd, TrueStmt>>

\* The code handleMessage injects for storeValue.
StoreValueCode(key, value) ==
    <<InitMirrorStmt, SetMirrorOpen>> \o JSONStringifyValue(JsString(key))
      \o <<SetMirrorAssign>> \o JSONStringifyValue(JsString(value))
      \o <<StmtEnd, TrueStmt>>

\* The code handleMessage injects for clearStorage and onEndChat.
ClearCode == <<ClearMirrorStmt, TrueStmt>>

\* window.__sierraResolveCallback(callbackId, null); true;
ResolveNullCode(callbackId) ==
    <<ResolveOpen>> \o JSONStringifyValue(callbackId) \o <<ArgSeparator, "null">>
      \o <<ResolveClose, TrueStmt>>

\* A reply that passes the error text in the value position.
ResolveCodeErrorAsValue(callbackId, result) ==
    <<ResolveOpen>> \o JSONStringifyValue(callbackId) \o <<ArgSeparator>>
      \o JSONStringifyValue(IF result.hasError THEN result.error ELSE result.value)
      \o <<ResolveClose, TrueStmt>>

\* The jsCode of the reply closure: "error" in result ? ... : ...
ResolveCode(callbackId, result) ==
    IF result.hasError
    THEN <<ResolveOpen>> \o JSONStringifyValue(callbackId) \o <<ArgSeparator, "null">>
           \o <<ArgSeparator>> \o JSONStringifyValue(result.error)
           \o <<ResolveClose, TrueStmt>>
    ELSE <<ResolveOpen>> \o JSONStringifyValue(callbackId) \o <<ArgSeparator>>
           \o JSONStringifyValue(result.value) \o <<ResolveClose, TrueStmt>>

\* The JavaScript engine of the surface reads a string literal that opens
\* at position pos - 1 with the delimiter delim: a backslash takes the next
\* character literally, the delimiter closes the literal.
\* [ok, chars, next]: whether a literal was read, its characters, and the
\* position after it.
RECURSIVE ScanString(_, _, _, _)
ScanString(code, pos, delim, acc) ==
    IF pos > Len(code) \/ code[pos] \notin Alphabet
    THEN [ok |-> FALSE, chars |-> acc, next |-> pos]
    ELSE IF code[pos] = delim
    THEN [ok |-> TRUE, chars |-> acc, next |-> pos + 1]
    ELSE IF code[pos] = "\\"
    THEN IF pos + 1 <= Len(code) /\ code[pos + 1] \in Alphabet
         THEN ScanString(code, pos + 2, delim, Append(acc, code[pos + 1]))
         ELSE [ok |-> FALSE, chars |-> acc, next |-> pos]
    ELSE ScanString(code, pos + 1, delim, Append(acc, code[pos]))

\* An argument expression at pos: a string literal, null or undefined.
\* [ok, val, next]
ReadExpr(code, pos) ==
    IF pos > Len(code) THEN [ok |-> FALSE, val |-> JsUndefined, next |-> pos]
    ELSE IF code[pos] \in {"\"", "'"}
    THEN LET r == ScanString(code, pos + 1, code[pos], << >>) IN
         [ok |-> r.ok, val |-> JsString(FromChars(r.chars)), next |-> r.next]
    ELSE IF code[pos] = "null" THEN [ok |-> TRUE, val |-> JsNull, next |-> pos + 1]
    ELSE IF code[pos] = "undefined"
    THEN [ok |-> TRUE, val |-> JsUndefined, next |-> pos + 1]
    ELSE [ok |-> FALSE, val |-> JsUndefined, next |-> pos]

Expect(code, pos, tokens) ==
    /\ pos + Len(tokens) - 1 <= Len(code)
    /\ SubSeq(code, pos, pos + Len(tokens) - 1) = tokens

\* No statement was recognised: the script does not parse, nothing runs.
SyntaxError == [ok |-> FALSE, stmt |-> "", args |-> << >>]

\* What a script passed to injectJavaScript does when the surface runs it:
\* [ok, stmt, args].  stmt is the one statement it consists of (besides
\* the initialization and the trailing true): "set" with args <<key, value>>,
\* "clear", or "resolve" with the arguments of the call.
Parse(code) ==
    IF code = ClearCode THEN [ok |-> TRUE, stmt |-> "clear", args |-> << >>]
    ELSE IF Expect(code, 1, <<InitMirrorStmt, SetMirrorOpen>>)
    THEN LET k == ReadExpr(code, 3) IN
         IF ~k.ok \/ ~Expect(code, k.next, <<SetMirrorAssign>>) THEN SyntaxError
         ELSE LET v == ReadExpr(code, k.next + 1) IN
              IF v.ok /\ SubSeq(code, v.next, Len(code)) = <<StmtEnd, TrueStmt>>
              THEN [ok |-> TRUE, stmt |-> "set", args |-> <<k.val, v.val>>]
              ELSE SyntaxError
    ELSE IF Expect(code, 1, <<ResolveOpen>>)
    THEN LET a == ReadExpr(code, 2) IN
         IF ~a.ok \/ ~Expect(code, a.next, <<ArgSeparator>>) THEN SyntaxError
         ELSE LET b == ReadExpr(code, a.next + 1) IN
              IF ~b.ok THEN SyntaxError
              ELSE IF SubSeq(code, b.next, Len(code)) = <<ResolveClose, TrueStmt>>
              THEN [ok |-> TRUE, stmt |-> "resolve", args |-> <<a.val, b.val>>]
              ELSE IF ~Expect(code, b.next, <<ArgSeparator>>) THEN SyntaxError
              ELSE LET c == ReadExpr(code, b.next + 1) IN
                   IF c.ok /\ SubSeq(code, c.next, Len(code)) = <<ResolveClose, TrueStmt>>
                   THEN [ok |-> TRUE, stmt |-> "resolve",
                         args |-> <<a.val, b.val, c.val>>]
                   ELSE SyntaxError
    ELSE SyntaxError

\* A property key is converted to a string (undefined and null included).
ToPropertyKey(x) == IF x.t = "string" THEN x.v ELSE x.t

\* The page after it has run an injected script.
Execute(code, page) ==
    LET p == Parse(code) IN
    IF ~p.ok \/ p.stmt = "resolve" THEN page
    ELSE IF p.stmt = "clear" THEN [page EXCEPT !.present = TRUE, !.obj = EmptyObject]
    ELSE [page EXCEPT !.present = TRUE,
                      !.obj = ObjSet(IF page.present THEN page.obj ELSE EmptyObject,
                                     ToPropertyKey(p.args[1]), p.args[2].v)]

\* The object literal of the storage script, evaluated by the surface: in
\* an object literal a "__proto__": v member sets the prototype (a string
\* is ignored) and defines no property.
RECURSIVE EvalMembers(_, _)
EvalMembers(toks, acc) ==
    IF toks = << >> THEN acc
    ELSE EvalMembers(Tail(Tail(toks)),
                     IF toks[1] = "__proto__" THEN acc ELSE DefineOwn(acc, toks[1], toks[2]))

EvalObjectLiteral(text) == EvalMembers(SubSeq(text, 2, Len(text) - 1), EmptyObject)

(* --------------------------- message bridge ---------------------------- *)

JsBoolean(b) == [t |-> "boolean", v |-> IF b THEN "true" ELSE "false"]

\* An object carried as transfer data: {} or one with a member.
JsObject(members) == [t |-> "object", v |-> members]

\* message.data of a payload that has none.
NoData ==
    [present |-> FALSE, key |-> JsUndefined, value |-> JsUndefined,
     isSynchronous |-> JsUndefined, isContactCenter |-> JsUndefined,
     data |-> JsUndefined]

\* event.nativeEvent.data, by what JSON.parse makes of it: json is
\* "syntaxError" when it throws, else the type of the value; for an
\* object, the members a WebViewMessage may have (undefined when absent).
Payload(json, type) ==
    [json |-> json, type |-> type, data |-> NoData,
     secretName |-> JsUndefined, callbackId |-> JsUndefined]

StoreValueMessage(key, value) ==
    [Payload("object", "storeValue") EXCEPT
       !.data = [NoData EXCEPT !.present = TRUE, !.key = key, !.value = value]]

TransferMessage(isSynchronous, isContactCenter, data) ==
    [Payload("object", "transfer") EXCEPT
       !.data = [NoData EXCEPT !.present = TRUE, !.isSynchronous = isSynchronous,
                               !.isContactCenter = isContactCenter, !.data = data]]

SecretExpiryMessage(secretName, callbackId) ==
    [Payload("object", "onSecretExpiry") EXCEPT
       !.secretName = secretName, !.callbackId = callbackId]

\* Keys and values the surface stores, and the callback ids it uses.
MessageKeys == {"", "a", "__proto__", Quote}
MessageValues == {"", Quote}
CallbackIds == {"c1", Quote}

\* Payloads for which decoding fails: text JSON.parse rejects, JSON that is
\* no object, an object with an unknown type or none, and a storeValue or
\* transfer message without its data object.
MalformedPayloads ==
    {Payload("syntaxError", ""), Payload("null", ""), Payload("number", ""),
     Payload("object", "unknown"),
     Payload("object", "storeValue"), Payload("object", "transfer")}

StoreValuePayloads ==
    {StoreValueMessage(JsString(k), JsString(v)) : k \in MessageKeys, v \in MessageValues}
      \cup {StoreValueMessage(JsString("a"), JsUndefined),
            StoreValueMessage(JsUndefined, JsString(""))}

TransferPayloads ==
    {TransferMessage(JsBoolean(TRUE), JsBoolean(FALSE), JsObject("{x}")),
     TransferMessage(JsBoolean(TRUE), JsBoolean(TRUE), JsUndefined),
     TransferMessage(JsUndefined, JsUndefined, JsObject("{}"))}

SecretExpiryPayloads == {SecretExpiryMessage(JsString("a"), JsString(c)) : c \in CallbackIds}

\* The kinds handleMessage knows.
KnownKinds ==
    {"storeValue", "clearStorage", "transfer", "agentMessageEnd", "onEndChat",
     "onSecretExpiry"}

\* Well-formed messages of a kind handleMessage does not know, with and
\* without fields of their own.
UnknownKindPayloads ==
    {Payload("object", "unknown"),
     [StoreValueMessage(JsString("a"), JsString(Quote)) EXCEPT !.type = "unknown"]}

Payloads ==
    MalformedPayloads \cup StoreValuePayloads \cup TransferPayloads
      \cup SecretExpiryPayloads \cup UnknownKindPayloads
      \cup {Payload("object", "clearStorage"), Payload("object", "agentMessageEnd"),
            Payload("object", "onEndChat")}

\* The optional callback props of the render handleMessage belongs to
\* (onAgentMessageEnd and onEndChat are taken as given), and whether the
\* host's callbacks throw when they are called.
Props == [onConversationTransfer : BOOLEAN, onSecretExpiry : BOOLEAN, throws : BOOLEAN]

AllProps == [onConversationTransfer |-> TRUE, onSecretExpiry |-> TRUE, throws |-> FALSE]

\* Every callback registered, and every one of them throws.
ThrowingProps == [AllProps EXCEPT !.throws = TRUE]

\* The props that make a difference to the handling of a payload.
PropsFor(payload) ==
    IF payload.type = "transfer"
    THEN {[AllProps EXCEPT !.onConversationTransfer = b] : b \in BOOLEAN}
    ELSE IF payload.type = "onSecretExpiry"
    THEN {[AllProps EXCEPT !.onSecretExpiry = b] : b \in BOOLEAN}
    ELSE {AllProps}

\* What the host passes to a reply handler: { value } or { error }.
NoResult == [hasError |-> FALSE, value |-> JsUndefined, error |-> JsUndefined]
ValueResult(v) == [NoResult EXCEPT !.value = v]
ErrorResult(e) == [NoResult EXCEPT !.hasError = TRUE, !.error = JsString(e)]

Results ==
    {ValueResult(JsString(Quote)), ValueResult(JsNull), ErrorResult("retry"),
     ErrorResult(Quote)}

\* The argument of onConversationTransfer.
NoTransfer ==
    [isSynchronous |-> JsUndefined, isContactCenter |-> JsUndefined, data |-> JsUndefined]

\* One invocation of a host callback.
Callback(name) == [name |-> name, transfer |-> NoTransfer, secretName |-> JsUndefined]

\* What one run of the switch does: whether it threw, the storage call it
\* made, the scripts it injected, the host callbacks it invoked, the
\* reply closures it handed out, and (trace) the order in which it made
\* its calls.
NoEffect ==
    [threw |-> FALSE, store |-> "none", key |-> "", value |-> "",
     code |-> << >>, callbacks |-> << >>, request |-> << >>, trace |-> << >>]

Threw == [NoEffect EXCEPT !.threw = TRUE]

\* if (webViewRef.current) webViewRef.current.injectJavaScript(code)
Inject(ref, code) == IF ref THEN <<code>> ELSE << >>

\* The host callbacks handleMessage calls.
CallbackNames ==
    {"onConversationTransfer", "onAgentMessageEnd", "onEndChat", "onSecretExpiry"}

\* A run of a case in which the host callback throws: the calls made
\* before the callback, and the callback itself, have happened; the
\* statements after it are not reached.
ThrowAt(e) ==
    IF \A x \in 1..Len(e.trace) : e.trace[x] \notin CallbackNames THEN e
    ELSE LET x == CHOOSE x \in 1..Len(e.trace) :
                     /\ e.trace[x] \in CallbackNames
                     /\ \A y \in 1..(x - 1) : e.trace[y] \notin CallbackNames
             done == SubSeq(e.trace, 1, x)
             made(call) == \E y \in 1..x : done[y] = call
         IN [e EXCEPT !.threw = TRUE, !.trace = done,
                      !.store = IF made("setItem") \/ made("clear") THEN e.store ELSE "none",
                      !.code = IF made("injectJavaScript") THEN e.code ELSE << >>]

\* The injectJavaScript call in the order of calls, when it is made.
InjectCall(ref) == IF ref THEN <<"injectJavaScript">> ELSE << >>

\* A value in a condition (strings and undefined only).
Truthy(x) == x.t = "string" /\ x.v # ""

\* case "storeValue" without the injection.
caseStoreValueKeepsMirror(message, ref) ==
    IF message.data.present /\ Truthy(message.data.key)
       /\ message.data.value.t # "undefined"
    THEN [NoEffect EXCEPT !.store = "setItem",
                          !.key = message.data.key.v, !.value = message.data.value.v,
                          !.trace = <<"setItem">>]
    ELSE NoEffect

\* case "storeValue"
caseStoreValue(message, ref) ==
    IF message.data.present /\ Truthy(message.data.key)
       /\ message.data.value.t # "undefined"
    THEN [NoEffect EXCEPT !.store = "setItem",
                          !.key = message.data.key.v, !.value = message.data.value.v,
                          !.code = Inject(ref, StoreValueCode(message.data.key.v,
                                                              message.data.value.v)),
                          !.trace = <<"setItem">> \o InjectCall(ref)]
    ELSE NoEffect

\* case "clearStorage" without the injection.
caseClearStorageKeepsMirror(ref) ==
    [NoEffect EXCEPT !.store = "clear", !.trace = <<"clear">>]

\* case "clearStorage"
caseClearStorage(ref) ==
    [NoEffect EXCEPT !.store = "clear", !.code = Inject(ref, ClearCode),
                     !.trace = <<"clear">> \o InjectCall(ref)]

\* case "transfer" without its break: it falls through to the next case.
caseTransferFallsThrough(message, props) ==
    IF ~props.onConversationTransfer
    THEN [NoEffect EXCEPT !.callbacks = <<Callback("onAgentMessageEnd")>>,
                          !.trace = <<"onAgentMessageEnd">>]
    ELSE IF ~message.data.present THEN Threw
    ELSE [NoEffect EXCEPT
            !.callbacks = <<[Callback("onConversationTransfer") EXCEPT
                               !.transfer = [isSynchronous |-> message.data.isSynchronous,
                                             isContactCenter |-> message.data.isContactCenter,
                                             data |-> message.data.data]],
                            Callback("onAgentMessageEnd")>>,
            !.trace = <<"onConversationTransfer", "onAgentMessageEnd">>]

\* case "transfer": the argument object is built, and message.data read,
\* only when there is a callback to call.
caseTransfer(message, props) ==
    IF ~props.onConversationTransfer THEN NoEffect
    ELSE IF ~message.data.present THEN Threw
    ELSE [NoEffect EXCEPT
            !.callbacks = <<[Callback("onConversationTransfer") EXCEPT
                               !.transfer = [isSynchronous |-> message.data.isSynchronous,
                                             isContactCenter |-> message.data.isContactCenter,
                                             data |-> message.data.data]]>>,
            !.trace = <<"onConversationTransfer">>]

\* case "agentMessageEnd"
caseAgentMessageEnd ==
    [NoEffect EXCEPT !.callbacks = <<Callback("onAgentMessageEnd")>>,
                     !.trace = <<"onAgentMessageEnd">>]

\* case "onEndChat" with the host callback invoked first.
caseOnEndChatCallbackFirst(ref) ==
    [NoEffect EXCEPT !.store = "clear", !.code = Inject(ref, ClearCode),
                     !.callbacks = <<Callback("onEndChat")>>,
                     !.trace = <<"onEndChat", "clear">> \o InjectCall(ref)]

\* case "onEndChat"
caseOnEndChat(ref) ==
    [NoEffect EXCEPT !.store = "clear", !.code = Inject(ref, ClearCode),
                     !.callbacks = <<Callback("onEndChat")>>,
                     !.trace = <<"clear">> \o InjectCall(ref) \o <<"onEndChat">>]

\* Counting to "twice or more".
Count(n, more) == IF n + more > 2 THEN 2 ELSE n + more

\* The reply closure handed to the host: the message it closed over, how
\* often the host has invoked it, and how often it has injected (0, 1, or
\* 2 for twice or more).
Request(message) ==
    [callbackId |-> message.callbackId, secretName |-> message.secretName,
     replies |-> 0, injections |-> 0]

\* case "onSecretExpiry" without the else branch.
caseOnSecretExpiryNoElse(message, props, ref) ==
    IF props.onSecretExpiry
    THEN [NoEffect EXCEPT
            !.callbacks = <<[Callback("onSecretExpiry") EXCEPT
                               !.secretName = message.secretName]>>,
            !.request = <<Request(message)>>,
            !.trace = <<"onSecretExpiry">>]
    ELSE NoEffect

\* case "onSecretExpiry" that also resolves with null when a handler is
\* registered.
caseOnSecretExpiryAlwaysResolves(message, props, ref) ==
    IF props.onSecretExpiry
    THEN [NoEffect EXCEPT
            !.callbacks = <<[Callback("onSecretExpiry") EXCEPT
                               !.secretName = message.secretName]>>,
            !.request = <<Request(message)>>,
            !.code = Inject(ref, ResolveNullCode(message.callbackId)),
            !.trace = <<"onSecretExpiry">> \o InjectCall(ref)]
    ELSE [NoEffect EXCEPT !.code = Inject(ref, ResolveNullCode(message.callbackId)),
                          !.trace = InjectCall(ref)]

\* case "onSecretExpiry"
caseOnSecretExpiry(message, props, ref) ==
    IF props.onSecretExpiry
    THEN [NoEffect EXCEPT
            !.callbacks = <<[Callback("onSecretExpiry") EXCEPT
                               !.secretName = message.secretName]>>,
            !.request = <<Request(message)>>,
            !.trace = <<"onSecretExpiry">>]
    ELSE [NoEffect EXCEPT !.code = Inject(ref, ResolveNullCode(message.callbackId)),
                          !.trace = InjectCall(ref)]

\* The try block with a default case that clears the storage.
HandleTryDefaultClears(payload, props, ref) ==
    IF payload.json = "syntaxError" \/ payload.json = "null" THEN Threw
    ELSE IF payload.json # "object" THEN NoEffect
    ELSE LET e == CASE payload.type = "storeValue" -> caseStoreValue(payload, ref)
                    [] payload.type = "clearStorage" -> caseClearStorage(ref)
                    [] payload.type = "transfer" -> caseTransfer(payload, props)
                    [] payload.type = "agentMessageEnd" -> caseAgentMessageEnd
                    [] payload.type = "onEndChat" -> caseOnEndChat(ref)
                    [] payload.type = "onSecretExpiry" ->
                         caseOnSecretExpiry(payload, props, ref)
                    [] OTHER -> caseClearStorage(ref)
         IN IF props.throws THEN ThrowAt(e) ELSE e

\* The try block of handleMessage: JSON.parse(data), then the switch; a
\* host callback that throws ends the block where it was called.
\* Reading message.type of null throws; a value without a type, or with
\* an unknown one, matches no case.
HandleTry(payload, props, ref) ==
    IF payload.json = "syntaxError" \/ payload.json = "null" THEN Threw
    ELSE IF payload.json # "object" THEN NoEffect
    ELSE LET e == CASE payload.type = "storeValue" -> caseStoreValue(payload, ref)
                    [] payload.type = "clearStorage" -> caseClearStorage(ref)
                    [] payload.type = "transfer" -> caseTransfer(payload, props)
                    [] payload.type = "agentMessageEnd" -> caseAgentMessageEnd
                    [] payload.type = "onEndChat" -> caseOnEndChat(ref)
                    [] payload.type = "onSecretExpiry" ->
                         caseOnSecretExpiry(payload, props, ref)
                    [] OTHER -> NoEffect
         IN IF props.throws THEN ThrowAt(e) ELSE e

\* handleMessage without its catch block.
handleMessageNoCatch(payload, props, ref) ==
    LET e == HandleTry(payload, props, ref) IN
    [effect |-> e, raised |-> e.threw]

\* handleMessage(event): what the try block did; the catch block logs
\* whatever it threw, so nothing is raised.
handleMessage(payload, props, ref) ==
    LET e == HandleTry(payload, props, ref) IN
    [effect |-> e, raised |-> FALSE]

\* A reply closure that injects without testing webViewRef.current.
replyClosureIgnoresRef(reqs, r, result, ref) ==
    <<ResolveCode(reqs[r].callbackId, result)>>

\* A reply closure that resolves the callbackId of the latest request.
replyClosureLatestCallbackId(reqs, r, result, ref) ==
    Inject(ref, ResolveCode(reqs[Len(reqs)].callbackId, result))

\* result => { ... }: the closure of request r invoked with result.
replyClosure(reqs, r, result, ref) ==
    Inject(ref, ResolveCode(reqs[r].callbackId, result))

RECURSIVE ExecuteAll(_, _)
ExecuteAll(codes, page) ==
    IF codes = << >> THEN page
    ELSE ExecuteAll(Tail(codes), Execute(Head(codes), page))

NoMessage ==
    [n |-> 0, payload |-> Payload("", ""),
     props |-> [onConversationTransfer |-> FALSE, onSecretExpiry |-> FALSE,
                throws |-> FALSE],
     raised |-> FALSE, callbacks |-> << >>, trace |-> << >>, dropped |-> FALSE]

NoInjection == [by |-> "", req |-> 0, result |-> NoResult, code |-> << >>]

\* webViewRef.current is the WebView of the last commit, or null.
WebViewRef == view.rendered.kind = "webview"

(* ---------------------------- bridge actions --------------------------- *)

\* The WebView loads its page: injectedJavaScriptBeforeContentLoaded runs
\* the storage script before the page's own code (scriptRan); the platform
\* does not guarantee that it runs.
SurfaceLoads(scriptRan) ==
    /\ WebViewRef /\ ~surface.loaded
    /\ surface' = [loaded |-> TRUE, present |-> scriptRan,
                   obj |-> IF scriptRan
                           THEN EvalObjectLiteral(view.rendered.storageScript)
                           ELSE EmptyObject]
    /\ last' = NoCall
    /\ UNCHANGED <<storageVars, uiVars, requests, handled, injected>>

\* onMessage with a handler that returns before it has done anything and
\* leaves its work for later.
HandleMessageDeferred(payload, props) ==
    /\ WebViewRef /\ surface.loaded
    /\ handled.n < MaxMessages
    /\ handled' = [n |-> handled.n + 1, payload |-> payload, props |-> props,
                   raised |-> FALSE, callbacks |-> << >>, trace |-> << >>,
                   dropped |-> (handled.dropped \/ payload \in MalformedPayloads)]
    /\ injected' = [NoInjection EXCEPT !.by = "message"]
    /\ last' = NoCall
    /\ UNCHANGED <<storageVars, uiVars, surface, requests>>

\* The WebView loads its page again (the host calls reload() on the ref
\* the view forwards, or the platform restarts the page): a new window,
\* in which the storage script of the last render will run.
SurfaceReloads ==
    /\ WebViewRef /\ surface.loaded
    /\ surface' = Unloaded
    /\ last' = NoCall
    /\ UNCHANGED <<storageVars, uiVars, requests, handled, injected>>

\* The page posts a message and the WebView calls onMessage: one run of
\* handleMessage, with the agent and the props of the last render; the
\* surface then runs what was injected.
HandleMessage(payload, props) ==
    LET i == view.rendered.agent
        h == handleMessage(payload, props, WebViewRef)
        e == h.effect
        s == storage[i]
        w == setItem(s, e.key, e.value)
        c == clear(s)
    IN /\ WebViewRef /\ surface.loaded
       /\ handled.n < MaxMessages
       /\ e.store # "none" => calls < MaxCalls
       /\ storage' = IF e.store = "setItem" THEN [storage EXCEPT ![i].cache = w.cache]
                     ELSE IF e.store = "clear" THEN [storage EXCEPT ![i].cache = c.cache]
                     ELSE storage
       /\ inflight' =
            IF e.store = "setItem" /\ w.mirror
            THEN Append(inflight, [op |-> "setItem", inst |-> i,
                                   key |-> s.storageKey, text |-> w.text])
            ELSE IF e.store = "clear" /\ c.mirror
            THEN Append(inflight, [op |-> "removeItem", inst |-> i,
                                   key |-> s.storageKey, text |-> EmptyText])
            ELSE inflight
       /\ calls' = IF e.store = "none" THEN calls ELSE calls + 1
       /\ last' = IF e.store = "setItem"
                  THEN [NoCall EXCEPT !.op = "setItem", !.inst = i,
                                      !.key = e.key, !.val = e.value]
                  ELSE IF e.store = "clear"
                  THEN [NoCall EXCEPT !.op = "clear", !.inst = i]
                  ELSE NoCall
       /\ surface' = ExecuteAll(e.code, surface)
       /\ requests' = requests \o e.request
       /\ handled' = [n |-> handled.n + 1, payload |-> payload, props |-> props,
                      raised |-> h.raised, callbacks |-> e.callbacks, trace |-> e.trace,
                      dropped |-> (handled.dropped \/ payload \in MalformedPayloads)]
       /\ injected' = [NoInjection EXCEPT !.by = "message", !.code = e.code]
       /\ returned' = IF e.store = "setItem" THEN ReturnedAfterWrite(i, w.cache)
                      ELSE IF e.store = "clear" THEN ReturnedAfterRebind(i)
                      ELSE returned
       /\ UNCHANGED <<disk, uiVars>>

\* The host invokes the reply handler of request r with a result.
Reply(r, result) ==
    LET code == replyClosure(requests, r, result, WebViewRef) IN
    /\ r \in 1..Len(requests)
    /\ requests' = [requests EXCEPT ![r].replies = Count(@, 1),
                                    ![r].injections = Count(@, Len(code))]
    /\ surface' = ExecuteAll(code, surface)
    /\ injected' = [by |-> "reply", req |-> r, result |-> result, code |-> code]
    /\ last' = NoCall
    /\ UNCHANGED <<storageVars, uiVars, handled>>

(* --------------------------- specification ----------------------------- *)

\* The adapter may already hold anything under the first token's key.
Init ==
    /\ storage = [i \in Insts |-> Unbuilt]
    /\ \E it \in InitItems :
          disk = [k \in StorageKeys |-> IF k = StorageKey("t1") THEN it ELSE NoItem]
    /\ inflight = << >>
    /\ calls = 0
    /\ last = NoCall
    /\ view = NoView
    /\ thens = {}
    /\ surface = Unloaded
    /\ requests = << >>
    /\ handled = NoMessage
    /\ injected = NoInjection
    /\ returned = NoReturned

\* One storage object, created either way, used and loaded in any order.
Next ==
    \/ \E m \in Modes, a \in BOOLEAN : NewAgent(1, m, "t1", a)
    \/ \E m \in Modes, a \in BOOLEAN : NewConversationStorage(1, m, StorageKey("t1"), a)
    \/ \E ok \in BOOLEAN : AdapterGetItemSettles(1, ok)
    \/ LoadFromDiskResumes(1)
    \/ \E k \in Keys, v \in Values : SetItem(1, k, v)
    \/ Clear(1)
    \/ \E j \in 1..MaxCalls, ok \in BOOLEAN : AdapterWriteCompletes(j, ok)

Spec == Init /\ [][Next]_vars

\* Spec with the scheduling the load relies on: the adapter settles the read
\* it was asked for, and the JavaScript job queue runs the continuation of
\* a settled await.
FairSpec ==
    /\ Spec
    /\ WF_vars(\E ok \in BOOLEAN : AdapterGetItemSettles(1, ok))
    /\ WF_vars(LoadFromDiskResumes(1))

\* A restart: a DISK storage with an adapter finishes its load, then writes;
\* every mirror operation completes successfully, in any order; only then
\* is a second storage constructed with the same key and adapter, and the
\* first one does nothing more.  The second storage's read succeeds.
RoundTripNext ==
    \/ NewConversationStorage(1, "disk", StorageKey("t1"), TRUE)
    \/ \E ok \in BOOLEAN : AdapterGetItemSettles(1, ok)
    \/ LoadFromDiskResumes(1)
    \/ \E k \in Keys, v \in Values :
          storage[1].load = "fulfilled" /\ storage[2].status = "unbuilt" /\ SetItem(1, k, v)
    \/ storage[1].load = "fulfilled" /\ storage[2].status = "unbuilt" /\ Clear(1)
    \/ \E j \in 1..MaxCalls : AdapterWriteCompletes(j, TRUE)
    \/ /\ storage[1].load = "fulfilled" /\ calls > 0 /\ inflight = << >>
       /\ NewConversationStorage(2, "disk", StorageKey("t1"), TRUE)
    \/ AdapterGetItemSettles(2, TRUE)
    \/ LoadFromDiskResumes(2)

RoundTripSpec == Init /\ [][RoundTripNext]_vars

\* The same restart with an adapter that completes its operations in the
\* order they were issued.
InOrderRoundTripNext ==
    \/ NewConversationStorage(1, "disk", StorageKey("t1"), TRUE)
    \/ \E ok \in BOOLEAN : AdapterGetItemSettles(1, ok)
    \/ LoadFromDiskResumes(1)
    \/ \E k \in Keys, v \in Values :
          storage[1].load = "fulfilled" /\ storage[2].status = "unbuilt" /\ SetItem(1, k, v)
    \/ storage[1].load = "fulfilled" /\ storage[2].status = "unbuilt" /\ Clear(1)
    \/ AdapterWriteCompletes(1, TRUE)
    \/ /\ storage[1].load = "fulfilled" /\ calls > 0 /\ inflight = << >>
       /\ NewConversationStorage(2, "disk", StorageKey("t1"), TRUE)
    \/ AdapterGetItemSettles(2, TRUE)
    \/ LoadFromDiskResumes(2)

InOrderRoundTripSpec == Init /\ [][InOrderRoundTripNext]_vars

\* A reset and a restart: a DISK agent finishes its load, stores values
\* under ordinary keys and resets its conversation; every mirror operation
\* completes successfully, in any order; once the conversation was reset
\* and nothing is outstanding, a second agent is constructed with the same
\* token and adapter, and the first one does nothing more.
ResetNext ==
    \/ NewAgent(1, "disk", "t1", TRUE)
    \/ \E ok \in BOOLEAN : AdapterGetItemSettles(1, ok)
    \/ LoadFromDiskResumes(1)
    \/ \E k \in {"a", "b"}, v \in Values :
          storage[1].load = "fulfilled" /\ storage[2].status = "unbuilt" /\ SetItem(1, k, v)
    \/ storage[1].load = "fulfilled" /\ storage[2].status = "unbuilt"
          /\ ResetConversation(1)
    \/ \E j \in 1..MaxCalls : AdapterWriteCompletes(j, TRUE)
    \/ /\ storage[1].load = "fulfilled" /\ calls > 0 /\ inflight = << >>
       /\ storage[1].cache = EmptyObject
       /\ NewAgent(2, "disk", "t1", TRUE)
    \/ AdapterGetItemSettles(2, TRUE)
    \/ LoadFromDiskResumes(2)

ResetSpec == Init /\ [][ResetNext]_vars

\* Writes during the load: a DISK agent is constructed and, while its
\* load has not finished, the host stores values under ordinary keys and
\* resets the conversation; mirror operations complete or fail in any
\* order, before or after the adapter's read settles.
LoadRaceNext ==
    \/ NewAgent(1, "disk", "t1", TRUE)
    \/ \E ok \in BOOLEAN : AdapterGetItemSettles(1, ok)
    \/ LoadFromDiskResumes(1)
    \/ \E k \in {"a", "b"}, v \in Values :
          storage[1].load \in {"reading", "settled"} /\ SetItem(1, k, v)
    \/ storage[1].load \in {"reading", "settled"} /\ ResetConversation(1)
    \/ \E j \in 1..MaxCalls, ok \in BOOLEAN : AdapterWriteCompletes(j, ok)

LoadRaceSpec == Init /\ [][LoadRaceNext]_vars

\* Two agents and one view: the host creates agents, mounts the view,
\* swaps its agent and unmounts it, while the agents' loads proceed.
ViewNext ==
    \/ \E i \in Insts, m \in Modes, t \in Tokens, a \in BOOLEAN : NewAgent(i, m, t, a)
    \/ \E i \in Insts, ok \in BOOLEAN : AdapterGetItemSettles(i, ok)
    \/ \E i \in Insts : LoadFromDiskResumes(i)
    \/ \E a \in Insts : MountView(a)
    \/ \E b \in Insts : ChangeAgent(b)
    \/ UseEffect
    \/ \E cb \in thens : ThenCallback(cb)
    \/ UnmountView

ViewSpec == Init /\ [][ViewNext]_vars

\* One agent with its view mounted: the page loads and posts messages,
\* the host answers secret-expiry requests.
BridgeNext ==
    \/ \E m \in Modes : NewAgent(1, m, "t1", TRUE)
    \/ \E ok \in BOOLEAN : AdapterGetItemSettles(1, ok)
    \/ LoadFromDiskResumes(1)
    \/ handled.n = 0 /\ MountView(1)
    \/ UseEffect
    \/ \E cb \in thens : ThenCallback(cb)
    \/ \E scriptRan \in BOOLEAN : SurfaceLoads(scriptRan)
    \/ \E p \in Payloads : \E props \in PropsFor(p) : HandleMessage(p, props)
    \/ \E r \in 1..MaxMessages, result \in Results : Reply(r, result)

\* The adapter holds nothing, or a blob with two keys.
BridgeInit == Init /\ disk[StorageKey("t1")] \in {NoItem, Item(TwoKeyText)}

BridgeSpec == BridgeInit /\ [][BridgeNext]_vars

\* Two storeValue messages in a row: a DISK agent with its view mounted,
\* the page posts storeValue messages while no mirror write has completed
\* yet; every mirror write succeeds, in any order.
ConcurrentStoreNext ==
    \/ NewAgent(1, "disk", "t1", TRUE)
    \/ \E ok \in BOOLEAN : AdapterGetItemSettles(1, ok)
    \/ LoadFromDiskResumes(1)
    \/ handled.n = 0 /\ MountView(1)
    \/ UseEffect
    \/ \E cb \in thens : ThenCallback(cb)
    \/ \E scriptRan \in BOOLEAN : SurfaceLoads(scriptRan)
    \/ \E p \in StoreValuePayloads : Len(inflight) = calls /\ HandleMessage(p, AllProps)
    \/ \E j \in 1..MaxCalls : AdapterWriteCompletes(j, TRUE)

ConcurrentStoreSpec == BridgeInit /\ [][ConcurrentStoreNext]_vars

\* Secret expiry: the page asks for secrets (and posts the odd malformed
\* payload), the host answers each request whenever it likes, as often
\* as it likes, also after it has unmounted the view.
SecretNext ==
    \/ \E m \in Modes : NewAgent(1, m, "t1", TRUE)
    \/ \E ok \in BOOLEAN : AdapterGetItemSettles(1, ok)
    \/ LoadFromDiskResumes(1)
    \/ handled.n = 0 /\ MountView(1)
    \/ UseEffect
    \/ \E cb \in thens : ThenCallback(cb)
    \/ \E scriptRan \in BOOLEAN : SurfaceLoads(scriptRan)
    \/ \E p \in SecretExpiryPayloads \cup {Payload("syntaxError", "")} :
          \E props \in PropsFor(p) : HandleMessage(p, props)
    \/ \E r \in 1..MaxMessages, result \in Results : Reply(r, result)
    \/ UnmountView

SecretSpec == BridgeInit /\ [][SecretNext]_vars

\* One agent and its view: the host creates the agent in any mode, mounts
\* the view with it, renders it again, stores values and unmounts it, and
\* never passes another agent.  The adapter settles the read it was asked
\* for, the JavaScript job queue runs the continuation of a settled await
\* and the callbacks of a fulfilled promise, and React runs the effect of
\* a commit.
ReadyNext ==
    \/ \E m \in Modes : NewAgent(1, m, "t1", TRUE)
    \/ \E ok \in BOOLEAN : AdapterGetItemSettles(1, ok)
    \/ LoadFromDiskResumes(1)
    \/ MountView(1)
    \/ UseEffect
    \/ \E cb \in thens : ThenCallback(cb)
    \/ Rerender
    \/ UnmountView
    \/ \E v \in Values : SetItem(1, "a", v)
    \/ \E j \in 1..MaxCalls : AdapterWriteCompletes(j, TRUE)

ReadySpec ==
    /\ Init /\ [][ReadyNext]_vars
    /\ WF_vars(\E ok \in BOOLEAN : AdapterGetItemSettles(1, ok))
    /\ WF_vars(LoadFromDiskResumes(1))
    /\ WF_vars(UseEffect)
    /\ WF_vars(\E cb \in thens : ThenCallback(cb))

\* Two agents on one adapter: the first is constructed with the token t1,
\* the second with t2, both in DISK mode with the same adapter; both are
\* loaded, written and reset in any order, and the adapter completes
\* their operations in any order.
TokenOf(i) == IF i = 1 THEN "t1" ELSE "t2"

IsolationNext ==
    \/ \E i \in Insts : NewAgent(i, "disk", TokenOf(i), TRUE)
    \/ \E i \in Insts, ok \in BOOLEAN : AdapterGetItemSettles(i, ok)
    \/ \E i \in Insts : LoadFromDiskResumes(i)
    \/ \E i \in Insts, v \in Values : SetItem(i, "a", v)
    \/ \E i \in Insts : ResetConversation(i)
    \/ \E j \in 1..MaxCalls : AdapterWriteCompletes(j, TRUE)

IsolationSpec == BridgeInit /\ [][IsolationNext]_vars

\* Late replies: the page of the first agent asks for secrets; the host
\* then gives the view a second agent (the view goes back to the loading
\* presentation and mounts a new WebView once that agent's storage is
\* ready) or unmounts the view, and answers the requests whenever it
\* likes.
LateReplyNext ==
    \/ NewAgent(1, "memory", "t1", TRUE)
    \/ \E m \in {"memory", "disk"} : NewAgent(2, m, "t2", TRUE)
    \/ \E ok \in BOOLEAN : AdapterGetItemSettles(2, ok)
    \/ LoadFromDiskResumes(2)
    \/ handled.n = 0 /\ MountView(1)
    \/ ChangeAgent(2)
    \/ UseEffect
    \/ \E cb \in thens : ThenCallback(cb)
    \/ SurfaceLoads(TRUE)
    \/ /\ view.agent = 1 /\ view.rendered.agent = 1
       /\ HandleMessage(SecretExpiryMessage(JsString("a"), JsString("c1")), AllProps)
    \/ \E r \in 1..MaxMessages, result \in {ValueResult(JsNull), ErrorResult("retry")} :
          Reply(r, result)
    \/ UnmountView

LateReplySpec == BridgeInit /\ [][LateReplyNext]_vars

\* Throwing callbacks: one agent with its view mounted and every callback
\* registered; the page posts messages of every kind, and the host's
\* callbacks throw or return as they like.
ThrowPayloads ==
    {StoreValueMessage(JsString("a"), JsString(Quote)),
     TransferMessage(JsBoolean(TRUE), JsBoolean(FALSE), JsObject("{x}")),
     SecretExpiryMessage(JsString("a"), JsString("c1")),
     Payload("object", "clearStorage"), Payload("object", "agentMessageEnd"),
     Payload("object", "onEndChat")}

ThrowNext ==
    \/ \E m \in Modes : NewAgent(1, m, "t1", TRUE)
    \/ \E ok \in BOOLEAN : AdapterGetItemSettles(1, ok)
    \/ LoadFromDiskResumes(1)
    \/ handled.n = 0 /\ MountView(1)
    \/ UseEffect
    \/ \E cb \in thens : ThenCallback(cb)
    \/ \E scriptRan \in BOOLEAN : SurfaceLoads(scriptRan)
    \/ \E p \in ThrowPayloads, props \in {AllProps, ThrowingProps} :
          HandleMessage(p, props)

ThrowSpec == BridgeInit /\ [][ThrowNext]_vars

\* The mirror kept by messages: a MEMORY or DISK agent with its view
\* mounted; the storage script runs when the page loads, and from then on
\* only the page's storeValue, clearStorage and onEndChat messages change
\* the storage.
MirrorPayloads ==
    StoreValuePayloads
      \cup {Payload("object", "clearStorage"), Payload("object", "onEndChat")}

MirrorNext ==
    \/ \E m \in {"memory", "disk"} : NewAgent(1, m, "t1", TRUE)
    \/ \E ok \in BOOLEAN : AdapterGetItemSettles(1, ok)
    \/ LoadFromDiskResumes(1)
    \/ handled.n = 0 /\ MountView(1)
    \/ UseEffect
    \/ \E cb \in thens : ThenCallback(cb)
    \/ SurfaceLoads(TRUE)
    \/ \E p \in MirrorPayloads : HandleMessage(p, AllProps)

MirrorSpec == BridgeInit /\ [][MirrorNext]_vars

\* The host keeps what getAll() returned: one storage, constructed in any
\* mode, is loaded, written and cleared while the host takes copies of
\* its content and writes into them.
CopyNext ==
    \/ \E m \in Modes, a \in BOOLEAN : NewConversationStorage(1, m, StorageKey("t1"), a)
    \/ \E ok \in BOOLEAN : AdapterGetItemSettles(1, ok)
    \/ LoadFromDiskResumes(1)
    \/ \E k \in {"a", "b"} : SetItem(1, k, "1")
    \/ Clear(1)
    \/ GetAll(1)
    \/ \E k \in {"a", "b"} : MutateReturned(k, "")

CopySpec == BridgeInit /\ [][CopyNext]_vars

\* Reloads: one agent with its view mounted; the page posts storeValue,
\* clearStorage and onEndChat messages, the host calls setItem and clear
\* on the agent's storage and renders the view again when it likes, and
\* the page is loaded again and again; the storage script runs at every
\* load.
ReloadPayloads ==
    {StoreValueMessage(JsString("a"), JsString(v)) : v \in MessageValues}
      \cup {Payload("object", "clearStorage"), Payload("object", "onEndChat")}

ReloadNext ==
    \/ \E m \in Modes : NewAgent(1, m, "t1", TRUE)
    \/ \E ok \in BOOLEAN : AdapterGetItemSettles(1, ok)
    \/ LoadFromDiskResumes(1)
    \/ handled.n = 0 /\ MountView(1)
    \/ UseEffect
    \/ \E cb \in thens : ThenCallback(cb)
    \/ Rerender
    \/ SurfaceLoads(TRUE)
    \/ SurfaceReloads
    \/ \E p \in ReloadPayloads : HandleMessage(p, AllProps)
    \/ \E k \in {"a", "b"}, v \in Values : SetItem(1, k, v)
    \/ Clear(1)

ReloadSpec == BridgeInit /\ [][ReloadNext]_vars

(* ------------------------- storage properties -------------------------- *)

\* The blob the load of s read is one the load must ignore: the read
\* failed, or the text does not parse, or parses to something that is not
\* a plain object (null, a number, an array).
Malformed(s) ==
    \/ ~s.gotOk
    \/ /\ s.got.present /\ s.got.text # EmptyText
       /\ JSONParse(s.got.text).kind # "object"

DiskInstances == {i \in Insts : storage[i].status = "built" /\ storage[i].mode = "disk"}

\* C4: in DISK mode the promise behind waitForLoad() is pending from
\* construction (when an adapter is there to read from), becomes fulfilled
\* and then stays fulfilled, is never rejected, and, given that the adapter
\* read settles, is eventually fulfilled whatever the read produced.
C4_LoadReachesReadyOnce ==
    /\ [][\A i \in Insts :
            /\ (storage[i].status = "unbuilt" /\ storage'[i].status = "built"
                  /\ storage'[i].mode = "disk" /\ storage'[i].adapter)
                 => waitForLoad(storage'[i]) = "pending"
            /\ (storage[i].status = "built" /\ storage[i].mode = "disk")
                 => /\ waitForLoad(storage'[i]) # "rejected"
                    /\ waitForLoad(storage[i]) = "fulfilled"
                         => waitForLoad(storage'[i]) = "fulfilled"]_vars
    /\ \A i \in Insts :
          [](i \in DiskInstances => <>(waitForLoad(storage[i]) = "fulfilled"))

\* A DISK load that read a malformed blob, or whose read failed, has finished.
C4_Witness ==
    \E i \in DiskInstances :
        storage[i].load = "fulfilled" /\ Malformed(storage[i]) /\ ~storage[i].gotOk

\* C5: a malformed blob or a failed read is never propagated: only the
\* Agent's configuration check makes a constructor throw, the load promise
\* is never rejected, and once such a load has finished (no setItem or
\* clear having been called) getAll() is the empty mapping.
C5_MalformedLoadIsSwallowed ==
    \A i \in Insts :
        /\ storage[i].status = "threw" => (storage[i].mode = "disk" /\ ~storage[i].adapter)
        /\ waitForLoad(storage[i]) # "rejected"
        /\ (storage[i].load \notin {"null", "reading", "settled"} /\ Malformed(storage[i]))
             => /\ waitForLoad(storage[i]) = "fulfilled"
                /\ calls = 0 => getAll(storage[i]) = EmptyObject

\* The load of an array blob has finished.
C5_Witness ==
    \E i \in DiskInstances :
        /\ storage[i].load = "fulfilled" /\ calls = 0
        /\ storage[i].got = Item(ArrayText) /\ storage[i].gotOk

\* C6 (as claimed): no usable storage object is in DISK mode without an
\* adapter.
C6_NoDiskWithoutAdapter ==
    \A i \in Insts : ~(storage[i].status = "built" /\ storage[i].mode = "disk"
                         /\ ~storage[i].adapter)

\* C7: in NONE mode the cache is empty, getItem is null for every key,
\* getAll is the empty mapping; setItem raises nothing and leaves no
\* adapter operation behind.
C7_NoneModeStoresNothing ==
    \A i \in Insts :
        (storage[i].status = "built" /\ storage[i].mode = "none")
        => /\ storage[i].cache = EmptyObject
           /\ \A k \in Keys : getItem(storage[i], k) = JsNull
           /\ getAll(storage[i]) = EmptyObject
           /\ \A j \in 1..Len(inflight) : inflight[j].inst # i
           /\ (last.inst = i /\ last.op \in {"setItem", "clear"}) => ~last.raised

\* setItem has just been called, after earlier calls, on a NONE storage.
C7_Witness ==
    /\ last.op = "setItem" /\ calls >= 2
    /\ storage[last.inst].mode = "none" /\ storage[last.inst].adapter

\* C8 (as claimed): right after setItem(k, v), getItem(k) is v in MEMORY
\* and DISK mode and null in NONE mode.
C8_SetThenGet ==
    last.op = "setItem"
    => getItem(storage[last.inst], last.key) =
          IF storage[last.inst].mode = "none" THEN JsNull ELSE JsString(last.val)

\* C9 (as claimed): after a restart, once the new storage's load has
\* finished, its getAll() is exactly the mapping the prior storage held.
C9_DiskRoundTrip ==
    (storage[2].status = "built" /\ storage[2].load = "fulfilled")
    => AsMap(getAll(storage[2])) = AsMap(getAll(storage[1]))

\* C10: right after clear(), getAll() is the empty mapping, in every mode.
C10_ClearThenGetAll ==
    last.op = "clear" => getAll(storage[last.inst]) = EmptyObject

\* clear() has just been called on a DISK storage whose cache held a key
\* (the mirror write of that cache is still in flight).
C10_Witness ==
    /\ last.op = "clear" /\ storage[last.inst].mode = "disk"
    /\ \E j \in 1..Len(inflight) :
          inflight[j].op = "setItem" /\ inflight[j].text # JSONStringify(EmptyObject)

(* --------------------------- view properties --------------------------- *)

\* C1 (as claimed): whenever the last render returned the WebView for an
\* agent, that agent's waitForLoad() promise is fulfilled.
C1_SurfaceOnlyAfterLoad ==
    view.rendered.kind = "webview"
    => waitForLoad(storage[view.rendered.agent]) = "fulfilled"

\* C2 (as claimed): the render that follows a change of the agent prop
\* does not return the WebView for the new agent unless that agent's
\* waitForLoad() promise is fulfilled.
C2_AgentChangeAwaitsStorage ==
    [][(view.mounted /\ view'.mounted /\ view'.agent # view.agent)
        => (view'.rendered.kind = "webview"
             => waitForLoad(storage'[view'.agent]) = "fulfilled")]_vars

\* C3: isStorageReady becomes true only in a mounted view, by the callback
\* of the load of the agent the view has, that load being finished.
C3_OnlyCurrentLoadMakesReady ==
    [][(~view.isStorageReady /\ view'.isStorageReady)
        => /\ view'.mounted
           /\ last'.op = "thenCallback"
           /\ last'.inst = view'.agent
           /\ view'.agent = view.agent
           /\ waitForLoad(storage'[view'.agent]) = "fulfilled"]_vars

\* The callback of a previous agent's load has just run in a view that
\* now has another agent and is still waiting for it.
C3_Witness ==
    /\ last.op = "thenCallback"
    /\ view.mounted /\ last.inst # view.agent
    /\ ~view.isStorageReady /\ ~view.effectPending
    /\ waitForLoad(storage[view.agent]) = "pending"

(* -------------------------- bridge properties -------------------------- *)

\* The keys of the blob persisted under a storage key (none when nothing,
\* or nothing that parses, is persisted).
PersistedKeys(key) ==
    IF disk[key].present THEN OwnKeys(JSONParse(disk[key].text).obj) ELSE {}

\* C11 (as claimed): when storeValue messages were handled before any
\* mirror write had completed, then once every write has completed, the
\* blob persisted under the storage key holds every key the cache holds
\* (so both keys of two messages for different keys).
C11_ConcurrentStoresPersistBoth ==
    (calls >= 2 /\ inflight = << >>)
    => OwnKeys(storage[1].cache) \subseteq PersistedKeys(storage[1].storageKey)

\* C12: the completion of a mirror operation, failed or not, changes no
\* cache (getItem and getAll return what they returned before) and raises
\* nothing.
C12_MirrorFailureKeepsCache ==
    [][Len(inflight') < Len(inflight)
        => /\ ~last'.raised
           /\ \A i \in Insts :
                /\ storage'[i].cache = storage[i].cache
                /\ getAll(storage'[i]) = getAll(storage[i])
                /\ \A k \in Keys : getItem(storage'[i], k) = getItem(storage[i], k)]_vars

\* The only mirror write, of a setItem, has failed (the adapter still
\* holds nothing) and the cache still has the entry.
C12_Witness ==
    /\ calls = 1 /\ inflight = << >>
    /\ storage[1].mode = "disk" /\ storage[1].adapter
    /\ storage[1].load = "fulfilled" /\ storage[1].gotOk /\ storage[1].got = NoItem
    /\ ~disk[storage[1].storageKey].present
    /\ storage[1].cache # EmptyObject

\* The mirror object as the page sees it (an absent one has no keys).
MirrorObject(page) == IF page.present THEN page.obj ELSE EmptyObject

\* C13: handleMessage never raises; a malformed payload changes neither
\* storage nor adapter nor mirror, injects nothing, invokes no host
\* callback and hands out no reply handler; and a well-formed message
\* handled after a malformed one has its effect.
C13_MalformedPayloadIsDropped ==
    [][handled'.n = handled.n + 1
        => LET p == handled'.payload
               i == view.rendered.agent
           IN /\ ~handled'.raised
              /\ p \in MalformedPayloads
                   => /\ storage' = storage /\ inflight' = inflight /\ disk' = disk
                      /\ surface' = surface /\ requests' = requests
                      /\ injected'.code = << >>
                      /\ handled'.callbacks = << >>
              /\ handled.dropped
                   => /\ p.type \in {"clearStorage", "onEndChat"}
                        => /\ getAll(storage'[i]) = EmptyObject
                           /\ surface'.present /\ surface'.obj = EmptyObject
                      /\ p.type = "agentMessageEnd"
                        => handled'.callbacks = <<Callback("onAgentMessageEnd")>>
                      /\ p = StoreValueMessage(JsString("a"), JsString(Quote))
                        => /\ storage[i].mode # "none"
                              => getItem(storage'[i], "a") = JsString(Quote)
                           /\ ObjGet(MirrorObject(surface'), "a") = JsString(Quote)
                      /\ (p.type = "onSecretExpiry" /\ ~handled'.props.onSecretExpiry)
                        => Len(injected'.code) = 1]_vars

\* A storeValue message has just been stored after a malformed payload
\* was dropped.
C13_Witness ==
    /\ handled.dropped /\ handled.n = 2
    /\ handled.payload = StoreValueMessage(JsString("a"), JsString(Quote))
    /\ last.op = "setItem" /\ storage[last.inst].mode = "disk"

\* C14 (as claimed): handling storeValue(k, v) sets storage key k to v
\* (except in NONE mode) and makes the mirror hold v at k, initializing it
\* if absent; every other key of the mirror and of the cache is unchanged.
C14_StoreValueSetsKeyOnly ==
    [][\A k \in MessageKeys, v \in MessageValues :
         (handled'.n = handled.n + 1
            /\ handled'.payload = StoreValueMessage(JsString(k), JsString(v)))
         => LET i == view.rendered.agent IN
            /\ storage[i].mode # "none" => getItem(storage'[i], k) = JsString(v)
            /\ surface'.present
            /\ ObjGet(surface'.obj, k) = JsString(v)
            /\ \A k2 \in (MessageKeys \cup Keys) \ {k} :
                 /\ ObjGet(surface'.obj, k2) = ObjGet(MirrorObject(surface), k2)
                 /\ getItem(storage'[i], k2) = getItem(storage[i], k2)]_vars

\* The statement an injection is meant to be.
ParsedAs(stmt, args) == [ok |-> TRUE, stmt |-> stmt, args |-> args]

\* C15: whatever was just injected is one script that the surface parses
\* as exactly the statement meant, with the original strings as operands:
\* the mirror assignment with the message's key and value (after which the
\* mirror holds the value at the key), the mirror reset, or the resolver
\* call with the request's callbackId and the secret value or error text.
C15_InjectedValuesAreEncoded ==
    injected.code # << >>
    => /\ Len(injected.code) = 1
       /\ LET code == injected.code[1]
              p == handled.payload
          IN IF injected.by = "reply"
             THEN Parse(code) =
                    ParsedAs("resolve",
                             IF injected.result.hasError
                             THEN <<requests[injected.req].callbackId, JsNull,
                                    injected.result.error>>
                             ELSE <<requests[injected.req].callbackId,
                                    injected.result.value>>)
             ELSE IF p.type = "storeValue"
             THEN /\ Parse(code) = ParsedAs("set", <<p.data.key, p.data.value>>)
                  /\ p.data.key.v # "__proto__"
                       => ObjGet(MirrorObject(surface), p.data.key.v) = p.data.value
             ELSE IF p.type = "onSecretExpiry"
             THEN Parse(code) = ParsedAs("resolve", <<p.callbackId, JsNull>>)
             ELSE Parse(code) = ParsedAs("clear", << >>)

\* A storeValue message whose key and value hold a double quote and a
\* backslash has just been mirrored.
C15_Witness ==
    /\ injected.by = "message" /\ injected.code # << >>
    /\ handled.payload = StoreValueMessage(JsString(Quote), JsString(Quote))

\* What is absent in a transfer message, defaulted.
OrElse(x, default) == IF x.t = "undefined" THEN default ELSE x

\* C16 (as claimed): a transfer message invokes the host transfer callback
\* exactly once, with absent booleans false and absent data the empty
\* mapping.
C16_TransferDefaults ==
    (handled.payload \in TransferPayloads /\ handled.props.onConversationTransfer)
    => /\ Len(handled.callbacks) = 1
       /\ handled.callbacks[1].name = "onConversationTransfer"
       /\ LET t == handled.callbacks[1].transfer
              d == handled.payload.data
          IN /\ t.isSynchronous = OrElse(d.isSynchronous, JsBoolean(FALSE))
             /\ t.isContactCenter = OrElse(d.isContactCenter, JsBoolean(FALSE))
             /\ t.data = OrElse(d.data, JsObject("{}"))

\* C17: a secret-expiry message handled while no handler is registered
\* injects exactly one script, the resolver call with the message's
\* callbackId, null, and no third argument; it invokes no callback and
\* leaves no reply handler behind.
C17_NoHandlerResolvesWithNull ==
    [][(handled'.n = handled.n + 1 /\ handled'.payload \in SecretExpiryPayloads
          /\ ~handled'.props.onSecretExpiry)
        => /\ Len(injected'.code) = 1
           /\ Parse(injected'.code[1]) =
                ParsedAs("resolve", <<handled'.payload.callbackId, JsNull>>)
           /\ handled'.callbacks = << >>
           /\ requests' = requests]_vars

\* A secret-expiry message has just been handled without a handler.
C17_Witness ==
    /\ injected.by = "message"
    /\ handled.payload = SecretExpiryMessage(JsString("a"), JsString(Quote))
    /\ ~handled.props.onSecretExpiry

\* C18: a reply invoked while the WebView is there injects one resolver
\* call: for {error: e} with null and e after the callbackId, for
\* {value: v} with v and no third argument; without a WebView it injects
\* nothing.
C18_ReplyCarriesValueOrError ==
    [][(injected'.by = "reply" /\ (injected' # injected \/ requests' # requests))
        => IF ~WebViewRef THEN injected'.code = << >>
           ELSE /\ Len(injected'.code) = 1
                /\ LET p == Parse(injected'.code[1]) IN
                   /\ p.ok /\ p.stmt = "resolve"
                   /\ IF injected'.result.hasError
                      THEN /\ Len(p.args) = 3
                           /\ p.args[2] = JsNull
                           /\ p.args[3] = injected'.result.error
                      ELSE /\ Len(p.args) = 2
                           /\ p.args[2] = injected'.result.value]_vars

\* The host has just replied {error: "retry"}.
C18_Witness ==
    /\ injected.by = "reply" /\ injected.code # << >>
    /\ injected.result = ErrorResult("retry")

\* C19 (as claimed): no request gets more than one resolver injection.
C19_AtMostOneResolvePerRequest ==
    \A r \in 1..Len(requests) : requests[r].injections <= 1

\* C20: the resolver call a reply injects has the callbackId of the
\* request whose handler was invoked, and that of no other request.
C20_ReplyResolvesItsOwnRequest ==
    (injected.by = "reply" /\ injected.code # << >>)
    => LET p == Parse(injected.code[1]) IN
       /\ p.ok
       /\ p.args[1] = requests[injected.req].callbackId
       /\ \A r \in 1..Len(requests) :
            requests[r].callbackId # requests[injected.req].callbackId
              => p.args[1] # requests[r].callbackId

\* Two requests with different callbackIds: the host answered the second
\* one first and has just answered the first.
C20_Witness ==
    /\ Len(requests) = 2 /\ requests[1].callbackId # requests[2].callbackId
    /\ requests[2].replies = 1
    /\ injected.by = "reply" /\ injected.req = 1 /\ injected.code # << >>

\* In the order of calls, a was called and b was not called before it.
CalledBefore(trace, a, b) ==
    \E x \in 1..Len(trace) :
       /\ trace[x] = a
       /\ \A y \in 1..x : trace[y] # b

\* C21: handling an end-chat message empties the cache, resets the mirror
\* to empty, and invokes the host's end-chat callback exactly once, after
\* the cache was cleared.
C21_EndChatClearsThenCallsBack ==
    [][(handled'.n = handled.n + 1 /\ handled'.payload.type = "onEndChat")
        => LET i == view.rendered.agent IN
           /\ getAll(storage'[i]) = EmptyObject
           /\ surface'.present /\ surface'.obj = EmptyObject
           /\ handled'.callbacks = <<Callback("onEndChat")>>
           /\ CalledBefore(handled'.trace, "clear", "onEndChat")]_vars

\* An end-chat message has just been handled by a DISK agent whose cache
\* held the two keys it had loaded.
C21_Witness ==
    /\ handled.payload.type = "onEndChat" /\ last.op = "clear"
    /\ handled.callbacks = <<Callback("onEndChat")>>
    /\ storage[last.inst].mode = "disk" /\ storage[last.inst].load = "fulfilled"
    /\ storage[last.inst].gotOk /\ storage[last.inst].got = Item(TwoKeyText)

\* C22: handling a clear-storage message empties the cache and resets the
\* mirror to empty, and invokes no host callback.
C22_ClearStorageCallsNothing ==
    [][(handled'.n = handled.n + 1 /\ handled'.payload.type = "clearStorage")
        => LET i == view.rendered.agent IN
           /\ getAll(storage'[i]) = EmptyObject
           /\ surface'.present /\ surface'.obj = EmptyObject
           /\ handled'.callbacks = << >>
           /\ requests' = requests]_vars

\* A clear-storage message has just been handled after a storeValue
\* message had stored a value.
C22_Witness ==
    /\ handled.payload.type = "clearStorage" /\ handled.n = 2 /\ last.op = "clear"
    /\ \E j \in 1..Len(inflight) : inflight[j].op = "setItem"

\* C23: a well-formed message of an unknown kind changes neither cache
\* nor adapter nor mirror, injects nothing, invokes no host callback and
\* raises nothing.
C23_UnknownKindIsIgnored ==
    [][(handled'.n = handled.n + 1 /\ handled'.payload.json = "object"
          /\ handled'.payload.type \notin KnownKinds)
        => /\ storage' = storage /\ inflight' = inflight /\ disk' = disk
           /\ surface' = surface /\ requests' = requests
           /\ injected'.code = << >>
           /\ handled'.callbacks = << >>
           /\ ~handled'.raised]_vars

\* A message of an unknown kind that has a key and a value has just been
\* handled while the cache and the mirror held something.
C23_Witness ==
    /\ handled.payload \in UnknownKindPayloads
    /\ handled.payload.data.key = JsString("a")
    /\ storage[view.rendered.agent].cache # EmptyObject
    /\ surface.present /\ surface.obj # EmptyObject

\* C29: every message is handled in one piece, in the order of arrival:
\* when handleMessage returns, the storage call, the injections (which
\* the surface has run), the host callbacks and the reply handler of this
\* message are all done, on top of what the earlier messages left; adapter
\* operations are issued in the order of the messages; so a storeValue
\* after a clear is not cleared, and a clear after a storeValue clears it.
C29_MessagesHandledInArrivalOrder ==
    [][handled'.n = handled.n + 1
        => LET p == handled'.payload
               i == view.rendered.agent
               e == handleMessage(p, handled'.props, TRUE).effect
           IN /\ injected'.code = e.code
              /\ surface' = ExecuteAll(e.code, surface)
              /\ handled'.callbacks = e.callbacks
              /\ handled'.trace = e.trace
              /\ requests' = requests \o e.request
              /\ e.store = "none" => storage' = storage /\ inflight' = inflight
              /\ e.store = "setItem"
                   => storage'[i].cache = setItem(storage[i], e.key, e.value).cache
              /\ e.store = "clear" => storage'[i].cache = EmptyObject
              /\ Len(inflight') <= Len(inflight) + 1
              /\ SubSeq(inflight', 1, Len(inflight)) = inflight
              /\ (handled.payload.type \in {"clearStorage", "onEndChat"}
                    /\ p = StoreValueMessage(JsString("a"), JsString(Quote)))
                   => /\ ObjGet(surface'.obj, "a") = JsString(Quote)
                      /\ storage[i].mode # "none"
                           => getItem(storage'[i], "a") = JsString(Quote)
              /\ (handled.payload.type = "storeValue"
                    /\ p.type \in {"clearStorage", "onEndChat"})
                   => /\ getAll(storage'[i]) = EmptyObject
                      /\ surface'.obj = EmptyObject]_vars

\* A DISK agent has handled a clearing message and then a storeValue
\* message: the removal was issued before the write, and the mirror holds
\* the value.
C29_Witness ==
    /\ handled.n = 2
    /\ handled.payload = StoreValueMessage(JsString("a"), JsString(Quote))
    /\ Len(inflight) = 2
    /\ inflight[1].op = "removeItem" /\ inflight[2].op = "setItem"
    /\ surface.present /\ ObjGet(surface.obj, "a") = JsString(Quote)

\* C30: with a secret handler registered, handling a secret-expiry message
\* injects nothing and hands the host a reply handler; a request the host
\* has not replied to has no resolver injection, however long it waits;
\* and messages handled while a request waits are handled as ever.
C30_NoResolveBeforeReply ==
    [][/\ \A r \in 1..Len(requests') :
            requests'[r].replies = 0 => requests'[r].injections = 0
       /\ (handled'.n = handled.n + 1 /\ handled'.payload \in SecretExpiryPayloads
             /\ handled'.props.onSecretExpiry)
            => /\ injected'.code = << >>
               /\ requests' = requests \o <<Request(handled'.payload)>>
       /\ (handled'.n = handled.n + 1
             /\ \E r \in 1..Len(requests) : requests[r].replies = 0)
            => /\ \A r \in 1..Len(requests) : requests'[r] = requests[r]
               /\ (handled'.payload \in SecretExpiryPayloads
                     /\ ~handled'.props.onSecretExpiry)
                    => /\ Len(injected'.code) = 1
                       /\ Parse(injected'.code[1]) =
                            ParsedAs("resolve", <<handled'.payload.callbackId, JsNull>>)]_vars

\* A request waits for a reply the host has not given, and the next
\* secret-expiry message, handled without a handler, was resolved with
\* null.
C30_Witness ==
    /\ Len(requests) = 1 /\ requests[1].replies = 0 /\ requests[1].injections = 0
    /\ handled.n = 2 /\ handled.payload \in SecretExpiryPayloads
    /\ ~handled.props.onSecretExpiry
    /\ injected.by = "message" /\ injected.code # << >>

\* C25: in NONE and MEMORY mode waitForLoad() is resolved whenever it is
\* called; in DISK mode it is never resolved while the load attempt is
\* still running and never rejected; a waiter's callback runs only once
\* the load has finished, and every other waiter of the same load can
\* then run as well.
C25_WaitersResolveAfterLoad ==
    [][/\ \A i \in Insts :
            storage'[i].status = "built"
            => /\ storage'[i].mode \in {"none", "memory"}
                    => waitForLoad(storage'[i]) = "fulfilled"
               /\ storage'[i].mode = "disk"
                    => /\ waitForLoad(storage'[i]) # "rejected"
                       /\ waitForLoad(storage'[i]) = "fulfilled"
                            => storage'[i].load \notin {"reading", "settled"}
       /\ last'.op = "thenCallback"
            => /\ storage[last'.inst].load \notin {"reading", "settled"}
               /\ storage'[last'.inst].load \notin {"reading", "settled", "rejected"}
               /\ \A cb \in thens' :
                    cb.agent = last'.inst
                    => waitForLoad(storage'[cb.agent]) = "fulfilled"]_vars

\* A waiter of a DISK agent's load has just run while another waiter of
\* the same load has yet to run.
C25_Witness ==
    /\ last.op = "thenCallback"
    /\ storage[last.inst].mode = "disk" /\ storage[last.inst].adapter
    /\ storage[last.inst].load = "fulfilled"
    /\ \E cb \in thens : cb.agent = last.inst

\* C27 (as claimed): in DISK mode every setItem(k, v) has updated the cache
\* when it returns (getItem(k) is v) and has issued exactly one adapter
\* write, under the storage key, of the serialization of the whole cache
\* as it is right after the update.
C27_SetItemMirrorsWholeCache ==
    [][(last'.op = "setItem" /\ storage[last'.inst].mode = "disk")
        => LET i == last'.inst IN
           /\ getItem(storage'[i], last'.key) = JsString(last'.val)
           /\ inflight' =
                Append(inflight, [op |-> "setItem", inst |-> i,
                                  key |-> storage[i].storageKey,
                                  text |-> JSONStringify(storage'[i].cache)])]_vars

\* C28 (as claimed): once a DISK agent's conversation was reset and every
\* adapter operation has completed, the adapter holds no entry under the
\* storage key, and an agent constructed then with the same key starts
\* with an empty storage.
C28_ResetLeavesNoDiskEntry ==
    /\ (storage[1].status = "built" /\ storage[1].load = "fulfilled" /\ calls > 0
          /\ storage[1].cache = EmptyObject /\ inflight = << >>)
       => ~disk[storage[1].storageKey].present
    /\ (storage[2].status = "built" /\ storage[2].load = "fulfilled")
       => getAll(storage[2]) = EmptyObject

\* C24 (as claimed): whenever the page is loaded, for the first time or
\* again, the mirror it starts with is the content of the cache at that
\* moment.
C24_LoadPushesCurrentCache ==
    [][(~surface.loaded /\ surface'.loaded)
        => /\ surface'.present
           /\ AsMap(surface'.obj) = AsMap(getAll(storage'[view'.rendered.agent]))]_vars

\* C26: what getAll() returns has the content of the cache and is no part
\* of it: a write into the returned object changes nothing in the storage
\* (so no later getItem or getAll), and a later setItem, clear or finished
\* load changes nothing in an object returned earlier.
C26_GetAllReturnsIndependentCopy ==
    [][/\ last'.op = "getAll"
            => AsMap(returned'.obj) = AsMap(storage[last'.inst].cache)
       /\ last'.op = "mutate"
            => /\ storage' = storage
               /\ \A k \in Keys :
                    getItem(storage'[last'.inst], k) = getItem(storage[last'.inst], k)
       /\ (returned.taken /\ last'.op \in {"setItem", "clear", "loadFromDisk"})
            => returned' = returned]_vars

\* The host has just written into an object that getAll() returned from
\* a MEMORY storage, which now differs from the storage's content.
C26_Witness ==
    /\ last.op = "mutate" /\ returned.taken
    /\ storage[returned.inst].mode = "memory"
    /\ AsMap(returned.obj) # AsMap(getAll(storage[returned.inst]))

\* C31 (as claimed): a NONE or MEMORY storage never calls the adapter,
\* whatever is done with it: it issues no read, starts no load and has no
\* write or removal in flight; a DISK storage has issued exactly one
\* adapter read, the one of its construction.
C31_AdapterOnlyInDiskMode ==
    \A i \in Insts :
        storage[i].status = "built"
        => /\ storage[i].mode \in {"none", "memory"}
                => /\ storage[i].reads = 0 /\ storage[i].load = "null"
                   /\ \A j \in 1..Len(inflight) : inflight[j].inst # i
           /\ storage[i].mode = "disk" => storage[i].reads = 1

\* C32: with a NONE agent, whatever messages were handled and whatever
\* the host stored, every load of the page, the first and each reload,
\* starts with the empty mirror, and no adapter operation is ever issued
\* and nothing the adapter holds changes.
C32_NoneModeOutlivesNothing ==
    [][\A i \in Insts :
         (storage'[i].status = "built" /\ storage'[i].mode = "none")
         => /\ \A j \in 1..Len(inflight') : inflight'[j].inst # i
            /\ storage'[i].reads = 0
            /\ disk' = disk
            /\ (view'.rendered.kind = "webview" /\ view'.rendered.agent = i)
                 => view'.rendered.storageScript = JSONStringify(EmptyObject)
            /\ (~surface.loaded /\ surface'.loaded /\ view'.rendered.agent = i)
                 => surface'.present /\ surface'.obj = EmptyObject]_vars

\* The page of a NONE agent's view has been loaded again after a
\* storeValue message was handled: its mirror is empty.
C32_Witness ==
    /\ view.rendered.kind = "webview" /\ storage[view.rendered.agent].mode = "none"
    /\ handled.payload.type = "storeValue"
    /\ surface.loaded /\ surface.present /\ surface.obj = EmptyObject

\* C33 (as claimed): a storeValue message whose data object has a key (the
\* empty string included) and a value that is not undefined is stored
\* (except in NONE mode) and mirrored; one without data object, without
\* key or with an undefined value changes neither storage nor mirror.
C33_StoreValueTakesEffectIffComplete ==
    [][(handled'.n = handled.n + 1 /\ handled'.payload.type = "storeValue")
        => LET i == view.rendered.agent
               d == handled'.payload.data
           IN IF d.present /\ d.key.t = "string" /\ d.value.t # "undefined"
              THEN /\ storage[i].mode # "none" => getItem(storage'[i], d.key.v) = d.value
                   /\ surface'.present
                   /\ ObjGet(surface'.obj, d.key.v) = d.value
              ELSE /\ storage' = storage /\ inflight' = inflight
                   /\ surface' = surface
                   /\ injected'.code = << >>]_vars

\* C34: handling a transfer or an agent-message-end message invokes only
\* the callback of that message, once, when it is registered; it changes
\* neither the cache nor the adapter nor the mirror, injects nothing and
\* hands out no reply handler.
C34_CallbackMessagesChangeNothing ==
    [][(handled'.n = handled.n + 1
          /\ (handled'.payload \in TransferPayloads
                \/ handled'.payload.type = "agentMessageEnd"))
        => /\ storage' = storage /\ inflight' = inflight /\ disk' = disk
           /\ surface' = surface /\ requests' = requests
           /\ injected'.code = << >>
           /\ handled'.payload.type = "agentMessageEnd"
                => handled'.callbacks = <<Callback("onAgentMessageEnd")>>
           /\ handled'.payload.type = "transfer"
                => IF handled'.props.onConversationTransfer
                   THEN /\ Len(handled'.callbacks) = 1
                        /\ handled'.callbacks[1].name = "onConversationTransfer"
                   ELSE handled'.callbacks = << >>]_vars

\* A transfer message has just been handed to the host's callback while
\* the cache and the mirror held something.
C34_Witness ==
    /\ handled.payload \in TransferPayloads /\ handled.props.onConversationTransfer
    /\ Len(handled.callbacks) = 1
    /\ storage[view.rendered.agent].cache # EmptyObject
    /\ surface.present /\ surface.obj # EmptyObject

\* C35 (as claimed): when the load of a DISK storage finishes after the
\* storage was written to, every key the cache holds (set while the load
\* was pending) keeps its value, and a cache that is empty (cleared while
\* the load was pending) stays empty.
C35_LoadKeepsPendingMutations ==
    [][(last'.op = "loadFromDisk" /\ calls > 0)
        => LET i == last'.inst IN
           /\ \A k \in OwnKeys(storage[i].cache) :
                getItem(storage'[i], k) = getItem(storage[i], k)
           /\ storage[i].cache = EmptyObject => getAll(storage'[i]) = EmptyObject]_vars

\* C36: with a MEMORY or DISK agent, from the load of the page on and
\* after every handled storeValue, clearStorage and onEndChat message,
\* the mirror is there and holds exactly what getAll() holds.
C36_MirrorEqualsCache ==
    surface.loaded
    => /\ surface.present
       /\ AsMap(surface.obj) = AsMap(getAll(storage[view.rendered.agent]))

\* A DISK agent that had loaded two keys has handled two messages, the
\* last one storing a third key.
C36_Witness ==
    /\ handled.n = 2 /\ handled.payload.type = "storeValue"
    /\ storage[view.rendered.agent].mode = "disk"
    /\ Len(storage[view.rendered.agent].cache) = 3
    /\ surface.loaded /\ Len(surface.obj) = 3

\* A host callback was called while handling the message and threw.
CallbackThrew(h) == h.props.throws /\ h.callbacks # << >>

C38_ReplyWithoutSurfaceIsDropped ==
    [][(injected'.by = "reply" /\ (injected' # injected \/ requests' # requests))
        => /\ storage' = storage /\ inflight' = inflight /\ disk' = disk
           /\ view' = view /\ handled' = handled
           /\ IF ~WebViewRef
              THEN /\ injected'.code = << >>
                   /\ surface' = surface
                   /\ requests'[injected'.req].injections =
                        requests[injected'.req].injections
              ELSE /\ Len(injected'.code) = 1
                   /\ Parse(injected'.code[1]).ok
                   /\ Parse(injected'.code[1]).stmt = "resolve"
                   /\ Parse(injected'.code[1]).args[1] =
                        requests[injected'.req].callbackId
                   /\ surface' = ExecuteAll(injected'.code, surface)]_vars

\* The host has just answered a request of the first agent's page while
\* the view, given the second agent, shows the loading presentation.
C38_Witness ==
    /\ injected.by = "reply" /\ injected.code = << >>
    /\ requests[injected.req].replies = 1 /\ requests[injected.req].injections = 0
    /\ view.mounted /\ view.agent = 2 /\ view.rendered.kind = "loading"

\* C39: of two DISK agents with different tokens on one adapter, each
\* reads, writes and removes only under sierra_chat_<its token>: what its
\* read settles with is what the adapter holds under that key, every
\* operation it has in flight names that key, the entry under that key
\* changes only when one of its own operations completes, and nothing the
\* other agent does changes its storage object.
C39_AgentsAreIsolatedByToken ==
    [][\A i \in Insts :
         LET key == StorageKey(TokenOf(i)) IN
         /\ \A j \in 1..Len(inflight') :
              inflight'[j].inst = i => inflight'[j].key = key
         /\ (storage[i].load = "reading" /\ storage'[i].load = "settled"
               /\ storage'[i].gotOk)
              => storage'[i].got = disk[key]
         /\ disk'[key] # disk[key]
              => \E j \in 1..Len(inflight) :
                    inflight[j].inst = i /\ inflight' = Remove(inflight, j)
         /\ (last'.inst # i /\ last'.op \in {"newAgent", "setItem", "clear", "loadFromDisk"})
              => storage'[i] = storage[i]]_vars

\* Both agents have persisted their state: the adapter holds different
\* blobs under the two keys and the second agent has loaded.
C39_Witness ==
    /\ disk[StorageKey("t1")].present /\ disk[StorageKey("t2")].present
    /\ disk[StorageKey("t1")] # disk[StorageKey("t2")]
    /\ inflight = << >>
    /\ storage[1].load = "fulfilled" /\ storage[2].load = "fulfilled"

\* C40: a view mounted with one agent, in any persistence mode, leaves the
\* loading presentation and renders the WebView unless it is unmounted
\* first, given that the adapter's read settles; and a view that renders
\* the WebView keeps rendering it for as long as it stays mounted with the
\* same agent.
C40_ViewBecomesAndStaysReady ==
    /\ view.mounted ~> (view.rendered.kind = "webview" \/ ~view.mounted)
    /\ [][(view.mounted /\ view.rendered.kind = "webview"
             /\ view'.mounted /\ view'.agent = view.agent)
            => view'.rendered.kind = "webview"]_vars

\* The view of a DISK agent whose read failed renders the WebView, and the
\* host has rendered it again after a value was stored.
C40_Witness ==
    /\ view.mounted /\ view.rendered.kind = "webview"
    /\ storage[view.agent].mode = "disk" /\ ~storage[view.agent].gotOk
    /\ view.rendered.storageScript # JSONStringify(EmptyObject)

====
